---- MODULE Spec2Model ----
(***************************************************************************)
(* EdDSA threshold signing (eddsa/signing): the round-driven party state   *)
(* machine, the per-sender message slots, the host loop of the end-to-end  *)
(* tests, and signing finalization.                                        *)
(*                                                                         *)
(* The curve is modelled as a cyclic group of prime order N with           *)
(* generator G; a point k*G is represented by k (mod N), its affine        *)
(* coordinates and its compressed encoding are injective functions of k.   *)
(* Byte strings are sequences over 0..255; a big.Int is a natural number,  *)
(* except the message to sign, which is kept as the bytes of its big.Int.  *)
(***************************************************************************)
EXTENDS Integers, Sequences, FiniteSets, TLC

(* ------------------------------ bounds -------------------------------- *)

\* number of signing parties (testThreshold+1 in the end-to-end tests)
NParties == 2

\* index into Primes of the group order used by the model
OrderIdx == 1

Primes == <<7, 11, 13>>

\* group order (Params().EC().Params().N, the L of edwards25519.ScMulAdd)
N == Primes[OrderIdx]

Parties == 0 .. (NParties - 1)

Scalars == 0 .. (N - 1)

(* ------------------------- program constants -------------------------- *)

TaskName == "eddsa-signing"

\* paddedMsg := make([]byte, 32)
PaddedMsgLen == 32

\* RBytes := bigIntToFixedBytes(round.temp.r, 32)
RBytesLen == 32

\* common.NonEmptyMultiBytes(m.DeCommitment, 3)
DeCommitmentParts == 3

(* --------------------------- bytes, big.Int --------------------------- *)

RECURSIVE BytesOf(_)
\* big.Int.Bytes(): the minimal big-endian byte string, empty for 0
BytesOf(n) == IF n = 0 THEN <<>> ELSE Append(BytesOf(n \div 256), n % 256)

RECURSIVE SetBytes(_)
\* big.Int.SetBytes(): the value of a big-endian byte string
SetBytes(bs) ==
    IF bs = <<>> THEN 0
    ELSE 256 * SetBytes(SubSeq(bs, 1, Len(bs) - 1)) + bs[Len(bs)]

Zeros(k) == [x \in 1 .. k |-> 0]

\* copy(buf[len-len(bs):], bs) / FillBytes(buf): bs right-aligned in a zeroed
\* buffer of length len (there is no such value when bs does not fit, see
\* LeftPadPanics: bs stands in its place and is never used)
LeftPad(bs, len) == IF Len(bs) > len THEN bs ELSE Zeros(len - Len(bs)) \o bs

\* the slice expression buf[len-len(bs):] and FillBytes panic when bs is
\* longer than the buffer
LeftPadPanics(bs, len) == Len(bs) > len

NonEmptyBytes(bz) == Len(bz) > 0

NonEmptyMultiBytes(bzs, expectLen) ==
    /\ Len(bzs) # 0
    /\ Len(bzs) = expectLen
    /\ \A k \in 1 .. Len(bzs) : NonEmptyBytes(bzs[k])

RECURSIVE flattenByteSlices(_)
flattenByteSlices(bzs) ==
    IF bzs = <<>> THEN <<>> ELSE Head(bzs) \o flattenByteSlices(Tail(bzs))

(* ------------------------------ hashes -------------------------------- *)

PoseidonField == 251

\* the bytes are absorbed one by one, in order: the first half of the
\* string, and from the state that leaves, the second
PoseidonAbsorb(acc, bs) ==
    LET absorb[a \in Nat, s \in Seq(Nat)] ==
            IF s = <<>> THEN a
            ELSE IF Len(s) = 1 THEN (a * 7 + s[1] + 3) % PoseidonField
            ELSE absorb[absorb[a, SubSeq(s, 1, Len(s) \div 2)],
                        SubSeq(s, Len(s) \div 2 + 1, Len(s))]
    IN  absorb[acc, bs]

\* poseidon.HashBytes: a field element of the sponge's prime field
PoseidonHashBytes(bs) == PoseidonAbsorb(1, bs)

\* the bytes are absorbed one by one, in order
Sha512Absorb(acc, bs) ==
    LET absorb[a \in Nat, s \in Seq(Nat)] ==
            IF s = <<>> THEN a
            ELSE IF Len(s) = 1 THEN (a * 5 + s[1] + 1) % 65536
            ELSE absorb[absorb[a, SubSeq(s, 1, Len(s) \div 2)],
                        SubSeq(s, Len(s) \div 2 + 1, Len(s))]
    IN  absorb[acc, bs]

\* SHA-512 of a byte string, read as an integer
Sha512(bs) == Sha512Absorb(2, bs)

(* ------------------------------ the group ----------------------------- *)

\* crypto.ScalarBaseMult: (k mod N) * G
ScalarBaseMult(k) == k % N

PointAdd(p, q) == (p + q) % N

ScalarMult(p, k) == (p * k) % N

\* affine coordinates of the point p
PointX(p) == 3 * p + 1

PointY(p) == 2 * p + 3

\* the compressed encoding of a point, read as an integer (temp.r)
EncodePoint(p) == 2 * PointY(p) + (PointX(p) % 2)

\* edwards.ParsePubKey: the point of an encoding, -1 (an error) when the
\* bytes encode no point
ParsePubKey(e) ==
    IF \E p \in Scalars : EncodePoint(p) = e
    THEN CHOOSE p \in Scalars : EncodePoint(p) = e
    ELSE -1

\* edwards25519.ScMulAdd(out, a, b, c): out = (a*b + c) mod L
ScMulAdd(a, b, c) == (a * b + c) % N


\* crypto.NewECPoint: the point with the given coordinates, -1 (an error)
\* when the coordinates are not on the curve
NewECPoint(x, y) ==
    IF \E p \in Scalars : PointX(p) = x /\ PointY(p) = y
    THEN CHOOSE p \in Scalars : PointX(p) = x /\ PointY(p) = y
    ELSE -1

(* ----------------------- keys, nonces, the message -------------------- *)

\* the nonce r_i that party i draws in round 1 (the run's randomness)
Nonce(i) == 1 + ((i + 1) % (N - 1))

\* the nonce alpha of party i's Schnorr proof
ProofNonce(i) == 1 + ((i + 4) % (N - 1))

\* w_i * x_i mod N: party i's effective share of the key (keygen fixture)
WiXi(i) == 1 + (i % (N - 1))

RECURSIVE SumOver(_, _)
\* the sum of f over the indices 0 .. k
SumOver(f, k) == IF k < 0 THEN 0 ELSE f[k] + SumOver(f, k - 1)

\* the group public key key.EDDSAPub, Y = (sum of w_i * x_i) * G
EDDSAPub == ScalarBaseMult(SumOver([i \in Parties |-> WiXi(i)], NParties - 1))

\* the byte strings the host signs: big.NewInt(200), and a byte string with
\* a leading zero byte
\* the messages the signing tests sign: a small big.Int without a length, and
\* one whose byte string has a leading zero byte, with its length
TestInputs == {[m |-> BytesOf(200), fullBytesLen |-> 0], [m |-> BytesOf(241), fullBytesLen |-> 2]}

(* ------------------------------ messages ------------------------------ *)

NilMsg ==
    [type |-> "nil", from |-> -1, isBroadcast |-> FALSE,
     Commitment |-> <<>>, DeCommitment |-> <<>>,
     ProofAlphaX |-> <<>>, ProofAlphaY |-> <<>>, ProofT |-> <<>>, S |-> <<>>]

NewSignRound1Message(from, commitment) ==
    [NilMsg EXCEPT !.type = "SignRound1Message", !.from = from,
                   !.isBroadcast = TRUE,
                   !.Commitment = BytesOf(commitment)]

NewSignRound2Message(from, deCommitment, proof) ==
    [NilMsg EXCEPT !.type = "SignRound2Message", !.from = from,
                   !.isBroadcast = TRUE,
                   !.DeCommitment =
                       [k \in 1 .. Len(deCommitment) |->
                           BytesOf(PoseidonHashBytes(BytesOf(deCommitment[k])))],
                   !.ProofAlphaX = BytesOf(PointX(proof.Alpha)),
                   !.ProofAlphaY = BytesOf(PointY(proof.Alpha)),
                   !.ProofT = BytesOf(proof.T)]

NewSignRound3Message(from, si) ==
    [NilMsg EXCEPT !.type = "SignRound3Message", !.from = from,
                   !.isBroadcast = TRUE,
                   !.S = BytesOf(si)]

ValidateBasic(msg) ==
    CASE msg.type = "SignRound1Message" -> NonEmptyBytes(msg.Commitment)
      [] msg.type = "SignRound2Message" ->
            /\ NonEmptyMultiBytes(msg.DeCommitment, DeCommitmentParts)
            /\ NonEmptyBytes(msg.ProofAlphaX)
            /\ NonEmptyBytes(msg.ProofAlphaY)
            /\ NonEmptyBytes(msg.ProofT)
      [] msg.type = "SignRound3Message" -> NonEmptyBytes(msg.S)
      [] OTHER -> FALSE

UnmarshalCommitment(msg) == SetBytes(msg.Commitment)

UnmarshalDeCommitment(msg) ==
    [k \in 1 .. Len(msg.DeCommitment) |-> SetBytes(msg.DeCommitment[k])]

\* the proof of a round-2 message; Alpha = -1 when the coordinates are not a
\* point of the curve (an error)
UnmarshalZKProof(msg) ==
    [Alpha |-> NewECPoint(SetBytes(msg.ProofAlphaX), SetBytes(msg.ProofAlphaY)),
     T |-> SetBytes(msg.ProofT)]

UnmarshalS(msg) == SetBytes(msg.S)

\* the round a message belongs to, by its content type
RoundOf(msg) ==
    CASE msg.type = "SignRound1Message" -> 1
      [] msg.type = "SignRound2Message" -> 2
      [] msg.type = "SignRound3Message" -> 3
      [] OTHER -> 0

(* --------------------- commitments, Schnorr proofs -------------------- *)

\* the hash of a decommitment: the sponge over the parts' bytes
CommitHash(D) == PoseidonHashBytes(flattenByteSlices([k \in 1 .. Len(D) |-> BytesOf(D[k])]))

\* verify(C, D): recompute H(D) and compare
CommitVerify(C, D) == CommitHash(D) = C

\* c = H(G, X, A) mod N
SchnorrChallenge(X, A) ==
    Sha512(<<PointX(1), PointY(1), PointX(X), PointY(X), PointX(A), PointY(A)>>) % N

\* the proof (A, t) of knowledge of x for X = x * G, with nonce alpha
SchnorrProve(x, alpha) ==
    [Alpha |-> ScalarBaseMult(alpha),
     T |-> (alpha + SchnorrChallenge(ScalarBaseMult(x), ScalarBaseMult(alpha)) * x) % N]

\* t * G = A + c * X, A a point of the curve other than the identity
SchnorrVerify(proof, X) ==
    /\ proof.Alpha # -1
    /\ proof.Alpha # 0
    /\ ScalarBaseMult(proof.T) = PointAdd(proof.Alpha, ScalarMult(X, SchnorrChallenge(X, proof.Alpha)))


(* ------------------------------ variables ----------------------------- *)

VARIABLES
    build,          \* which finalization the binary links: "finalize.go" or "part_001"
    m,              \* the message handed to NewLocalParty: the bytes of the big.Int
    fullBytesLen,   \* the optional length handed to NewLocalParty (0: none)
    party,          \* party[i]: the round (base), temp data and signature data of P_i
    outCh,          \* the outbound channel shared by the parties
    endCh,          \* the SignatureData sent on the end channel, in order
    pending,        \* updater goroutines the host has spawned and that have not run
    ret             \* what the last Start() or Update() call returned

vars == <<build, m, fullBytesLen, party, outCh, endCh, pending, ret>>

(* -------------------------------- errors ------------------------------ *)

NoErr == [task |-> "", round |-> 0, victim |-> -1, culprits |-> {}, err |-> ""]

IsErr(e) == e.err # ""

\* what a Start() produces: the party after it, the messages sent on out, the
\* data sent on end, the error returned, and whether it panicked
Res(p, out, end, err) == [p |-> p, out |-> out, end |-> end, err |-> err, panic |-> FALSE]

Panicked(p) == [p |-> [p EXCEPT !.rnd = "panicked"], out |-> <<>>, end |-> <<>>, err |-> NoErr, panic |-> TRUE]

(* --------------------------- the round base --------------------------- *)

EmptyData == [Signature |-> <<>>, R |-> <<>>, S |-> <<>>, M |-> <<>>]

\* a party as NewLocalParty builds it: round 1's base, empty temp data
\* (ri and pointRi are the temp data's places for the nonce and its point;
\* -1 is nil)
NewLocalParty ==
    [rnd |-> "nil", number |-> 1, started |-> FALSE,
     ok |-> [j \in Parties |-> FALSE],
     signRound1Messages |-> [j \in Parties |-> NilMsg],
     signRound2Messages |-> [j \in Parties |-> NilMsg],
     signRound3Messages |-> [j \in Parties |-> NilMsg],
     deCommit |-> <<>>, si |-> -1, r |-> -1,
     ri |-> -1, pointRi |-> -1,
     data |-> EmptyData]

CanProceedNoStartedCheck(p) == \A j \in Parties : p.ok[j]

CanProceedAnyOk(p) == p.started /\ \E j \in Parties : p.ok[j]

\* CanProceed is inherited by other rounds
CanProceed(p) ==
    IF ~p.started THEN FALSE
    ELSE \A j \in Parties : p.ok[j]

\* a WaitingFor() that skips the parties with ok[j] false
WaitingForOk(p) == SelectSeq([k \in 1 .. NParties |-> k - 1], LAMBDA j : p.ok[j])

\* the indices j with ok[j] false, in peer-context order
WaitingFor(p) == SelectSeq([k \in 1 .. NParties |-> k - 1], LAMBDA j : ~p.ok[j])

WrapErrorNoCulprits(p, self, err, culprits) ==
    [task |-> TaskName, round |-> p.number, victim |-> self, culprits |-> {}, err |-> err]

WrapError(p, self, err, culprits) ==
    [task |-> TaskName, round |-> p.number, victim |-> self,
     culprits |-> culprits, err |-> err]

resetOK(p) == [p EXCEPT !.ok = [j \in Parties |-> FALSE]]

(* ------------------------------- round 1 ------------------------------ *)

\* a Start() that does not look at started
round1StartNoStartedCheck(p, i) ==
    LET p1 == resetOK([p EXCEPT !.number = 1, !.started = TRUE])
        C == PoseidonHashBytes(BytesOf(PointX(ScalarBaseMult(Nonce(i)))) \o
                               BytesOf(PointY(ScalarBaseMult(Nonce(i)))))
        r1msg2 == NewSignRound1Message(i, C)
    IN  Res([p1 EXCEPT !.deCommit = <<PointX(ScalarBaseMult(Nonce(i))),
                                     PointY(ScalarBaseMult(Nonce(i)))>>,
                       !.signRound1Messages[i] = r1msg2],
            <<r1msg2>>, <<>>, NoErr)

round1Start(p, i) ==
    IF p.started
    THEN Res(p, <<>>, <<>>, WrapError(p, i, "round already started", {}))
    ELSE LET p1 == resetOK([p EXCEPT !.number = 1, !.started = TRUE])
             ri == Nonce(i)
             pointRi == ScalarBaseMult(ri)
             xBytes == BytesOf(PointX(pointRi))
             yBytes == BytesOf(PointY(pointRi))
             C == PoseidonHashBytes(xBytes \o yBytes)
             D == <<SetBytes(xBytes), SetBytes(yBytes)>>
             r1msg2 == NewSignRound1Message(i, C)
             p2 == [p1 EXCEPT !.deCommit = D,
                              !.signRound1Messages[i] = r1msg2]
         IN  Res(p2, <<r1msg2>>, <<>>, NoErr)

round1CanAccept(msg) ==
    IF msg.type = "SignRound1Message" THEN msg.isBroadcast ELSE FALSE

round1UpdateNoSlotCheck(p) ==
    [p |-> [p EXCEPT !.ok = [j \in Parties |-> TRUE]], ret |-> TRUE, err |-> NoErr]

\* an update() that does not look at the slots
round1UpdateKeepsOk(p) ==
    [p |-> p, ret |-> \A j \in Parties : p.ok[j], err |-> NoErr]

\* the scan over the slots sets ok[j] for every slot that holds an acceptable
\* message and reports whether a slot was left without one
round1Update(p) ==
    LET okAfter == [j \in Parties |->
                      \/ p.ok[j]
                      \/ /\ p.signRound1Messages[j] # NilMsg
                         /\ round1CanAccept(p.signRound1Messages[j])]
    IN  [p |-> [p EXCEPT !.ok = okAfter],
         ret |-> \A j \in Parties : okAfter[j],
         err |-> NoErr]

\* a NextRound() of round 1 that returns round 3
round1NextRoundSkipsRound2(p) == [p EXCEPT !.started = FALSE, !.rnd = "round3"]

round1NextRound(p) == [p EXCEPT !.started = FALSE, !.rnd = "round2"]

(* ------------------------------- round 2 ------------------------------ *)

round2Start(p, i) ==
    IF p.started
    THEN Res(p, <<>>, <<>>, WrapError(p, i, "round already started", {}))
    ELSE LET p1 == resetOK([p EXCEPT !.number = 2, !.started = TRUE])
             proof == SchnorrProve(Nonce(i), ProofNonce(i))
             r2msg == NewSignRound2Message(i, p.deCommit, proof)
             p2 == [p1 EXCEPT !.signRound2Messages[i] = r2msg]
         IN  Res(p2, <<r2msg>>, <<>>, NoErr)

round2CanAccept(msg) ==
    IF msg.type = "SignRound2Message" THEN msg.isBroadcast ELSE FALSE

round2Update(p) ==
    LET okAfter == [j \in Parties |->
                      \/ p.ok[j]
                      \/ /\ p.signRound2Messages[j] # NilMsg
                         /\ round2CanAccept(p.signRound2Messages[j])]
    IN  [p |-> [p EXCEPT !.ok = okAfter],
         ret |-> \A j \in Parties : okAfter[j],
         err |-> NoErr]

round2NextRound(p) == [p EXCEPT !.started = FALSE, !.rnd = "round3"]

(* ------------------------------- round 3 ------------------------------ *)

\* the byte string of the message: m.Bytes(), or m.FillBytes of a buffer of
\* fullBytesLen bytes when that length was given
MessageBytes == IF fullBytesLen = 0 THEN m ELSE LeftPad(m, fullBytesLen)

\* the EdDSA signature hash of encode(R) || encode(Y) || msg, reduced mod N
SigHash(rEnc, Y, msg) ==
    Sha512(flattenByteSlices(<<BytesOf(rEnc), BytesOf(EncodePoint(Y)), msg>>)) % N

\* the point R_j that peer j's decommitment reveals (-1: none)
PeerR(p, j) ==
    LET D == UnmarshalDeCommitment(p.signRound2Messages[j])
    IN  IF Len(D) = DeCommitmentParts THEN NewECPoint(D[2], D[3]) ELSE -1

\* peer j's decommitment opens its round-1 commitment and its proof verifies
PeerVerifies(p, j) ==
    /\ CommitVerify(UnmarshalCommitment(p.signRound1Messages[j]),
                    UnmarshalDeCommitment(p.signRound2Messages[j]))
    /\ PeerR(p, j) # -1
    /\ SchnorrVerify(UnmarshalZKProof(p.signRound2Messages[j]), PeerR(p, j))

round3Start(p, i) ==
    IF p.started
    THEN Res(p, <<>>, <<>>, WrapError(p, i, "round already started", {}))
    ELSE LET p1 == resetOK([p EXCEPT !.number = 3, !.started = TRUE])
             bad == {j \in Parties \ {i} : ~PeerVerifies(p, j)}
         IN  IF bad # {}
             THEN LET j == CHOOSE c \in bad : \A d \in bad : c <= d
                  IN  Res(p1, <<>>, <<>>, WrapError(p1, i, "verification failed", {j}))
             ELSE LET R == SumOver([j \in Parties |->
                                      IF j = i THEN ScalarBaseMult(Nonce(i))
                                      ELSE PeerR(p, j)], NParties - 1) % N
                      k == SigHash(EncodePoint(R), EDDSAPub, MessageBytes)
                      si == (Nonce(i) + k * WiXi(i)) % N
                      r3msg == NewSignRound3Message(i, si)
                      p2 == [p1 EXCEPT !.si = si, !.r = EncodePoint(R),
                                       !.signRound3Messages[i] = r3msg]
                  IN  Res(p2, <<r3msg>>, <<>>, NoErr)

round3CanAccept(msg) ==
    IF msg.type = "SignRound3Message" THEN msg.isBroadcast ELSE FALSE

round3Update(p) ==
    LET okAfter == [j \in Parties |->
                      \/ p.ok[j]
                      \/ /\ p.signRound3Messages[j] # NilMsg
                         /\ round3CanAccept(p.signRound3Messages[j])]
    IN  [p |-> [p EXCEPT !.ok = okAfter],
         ret |-> \A j \in Parties : okAfter[j],
         err |-> NoErr]

round3NextRound(p) == [p EXCEPT !.started = FALSE, !.rnd = "finalization"]

(* ----------------------------- finalization --------------------------- *)

Builds == {"finalize.go", "part_001"}

sumSLoopNoPeers(p, i, j) == p.si

\* sumS after the loop over the parties up to index j
RECURSIVE sumSLoop(_, _, _)
sumSLoop(p, i, j) ==
    IF j < 0 THEN p.si
    ELSE IF j = i THEN sumSLoop(p, i, j - 1)
    ELSE ScMulAdd(sumSLoop(p, i, j - 1), 1, UnmarshalS(p.signRound3Messages[j]))

\* edwards.Verify: decode R, hash encode(R) || encode(A) || msg, compare
EdwardsVerify(pk, msg, r, s) ==
    /\ ParsePubKey(r) # -1
    /\ ScalarBaseMult(s) = PointAdd(ParsePubKey(r), ScalarMult(pk, SigHash(r, pk, msg)))

\* the check of h = Poseidon(R || A || M) mod order, R + h.A == s.B
PoseidonVerify(pk, MBytes, r, s) ==
    LET RBytes == LeftPad(BytesOf(r), RBytesLen)
        pubKeyBytes == BytesOf(PointX(pk)) \o BytesOf(PointY(pk))
        h == PoseidonHashBytes(flattenByteSlices(<<RBytes, pubKeyBytes, MBytes>>)) % N
        RPoint == ParsePubKey(SetBytes(RBytes))
    IN  /\ RPoint # -1
        /\ PointAdd(RPoint, ScalarMult(pk, h)) = ScalarBaseMult(s)

\* the SignatureData that finalization fills in before it verifies
finalizationData(p, i, s) ==
    [Signature |-> <<BytesOf(p.r), BytesOf(s)>>,
     R |-> BytesOf(p.r),
     S |-> BytesOf(s),
     M |-> IF build = "finalize.go"
           THEN BytesOf(PoseidonHashBytes(LeftPad(m, PaddedMsgLen)))
           ELSE MessageBytes]

finalizationVerifyNoCheck(p, i, s) == Res(p, <<>>, <<p.data>>, NoErr)

\* the self-verification of finalization and the send on the end channel; p
\* is the round with data filled in, s the aggregated scalar
finalizationVerify(p, i, s) ==
    IF build = "finalize.go"
    THEN IF LeftPadPanics(m, PaddedMsgLen) THEN Panicked(p)
         ELSE IF ~EdwardsVerify(EDDSAPub, p.data.M, p.r, s)
         THEN Res(p, <<>>, <<>>,
                  WrapError(p, i, "poseidon-based signature verification failed", {}))
         ELSE Res(p, <<>>, <<p.data>>, NoErr)
    ELSE IF ~PoseidonVerify(EDDSAPub, p.data.M, p.r, s)
         THEN Res(p, <<>>, <<>>,
                  WrapError(p, i, "poseidon-based signature verification failed", {}))
         ELSE Res(p, <<>>, <<p.data>>, NoErr)

\* a Start() of finalization that does not look at started
finalizationStartNoStartedCheck(p, i) ==
    finalizationVerify(
        [p EXCEPT !.number = 4, !.started = TRUE,
                  !.ok = [j \in Parties |-> TRUE],
                  !.data = finalizationData(p, i, sumSLoop(p, i, NParties - 1))],
        i, sumSLoop(p, i, NParties - 1))

finalizationStart(p, i) ==
    IF p.started
    THEN Res(p, <<>>, <<>>, WrapError(p, i, "round already started", {}))
    ELSE finalizationVerify(
             [p EXCEPT !.number = 4, !.started = TRUE,
                       !.ok = [j \in Parties |-> TRUE],
                       !.data = finalizationData(p, i, sumSLoop(p, i, NParties - 1))],
             i, sumSLoop(p, i, NParties - 1))

finalizationCanAccept(msg) == FALSE

finalizationUpdate(p) == [p |-> p, ret |-> FALSE, err |-> NoErr]

\* NextRound returns nil: the party has no round any more
finalizationNextRound(p) == [p EXCEPT !.rnd = "done"]

(* ---------------------------- the party shell ------------------------- *)

RoundStart(p, i) ==
    CASE p.rnd = "round1" -> round1Start(p, i)
      [] p.rnd = "round2" -> round2Start(p, i)
      [] p.rnd = "round3" -> round3Start(p, i)
      [] OTHER -> finalizationStart(p, i)

RoundUpdate(p) ==
    CASE p.rnd = "round1" -> round1Update(p)
      [] p.rnd = "round2" -> round2Update(p)
      [] p.rnd = "round3" -> round3Update(p)
      [] OTHER -> finalizationUpdate(p)

NextRound(p) ==
    CASE p.rnd = "round1" -> round1NextRound(p)
      [] p.rnd = "round2" -> round2NextRound(p)
      [] p.rnd = "round3" -> round3NextRound(p)
      [] OTHER -> finalizationNextRound(p)

HasRound(p) == p.rnd \in {"round1", "round2", "round3", "finalization"}

SlotOf(p, msg) ==
    CASE RoundOf(msg) = 1 -> p.signRound1Messages[msg.from]
      [] RoundOf(msg) = 2 -> p.signRound2Messages[msg.from]
      [] OTHER -> p.signRound3Messages[msg.from]

StoreMessage(p, msg) ==
    CASE RoundOf(msg) = 1 -> [p EXCEPT !.signRound1Messages[msg.from] = msg]
      [] RoundOf(msg) = 2 -> [p EXCEPT !.signRound2Messages[msg.from] = msg]
      [] OTHER -> [p EXCEPT !.signRound3Messages[msg.from] = msg]

\* what Update returns once the round's update() has run: u is what update()
\* returned. While the round can proceed: next_round(), and the start() of
\* the round it returns, and that round's update()
RECURSIVE Advance(_, _)
JoinResults(st, rest) ==
    [rest EXCEPT !.out = st.out \o rest.out, !.end = st.end \o rest.end]

AfterStart(st, i) ==
    IF IsErr(st.err) \/ st.panic THEN st
    ELSE JoinResults(st, Advance(st.p, i))

AfterNextRound(nxt, i) ==
    IF ~HasRound(nxt) THEN Res(nxt, <<>>, <<>>, NoErr)
    ELSE AfterStart(RoundStart(nxt, i), i)

AfterUpdate(u, i) ==
    IF IsErr(u.err) THEN Res(u.p, <<>>, <<>>, u.err)
    ELSE IF ~CanProceed(u.p) THEN Res(u.p, <<>>, <<>>, NoErr)
    ELSE AfterNextRound(NextRound(u.p), i)

Advance(p, i) == AfterUpdate(RoundUpdate(p), i)

UpdateResult(res) == [res |-> res, ok |-> ~IsErr(res.err) /\ ~res.panic]

\* Update(msg) without the check of the slot: a second message of a sender
\* replaces the first
UpdateNoDuplicateCheck(p, i, msg) ==
    IF msg.from \notin Parties \/ RoundOf(msg) = 0
    THEN [res |-> Res(p, <<>>, <<>>, WrapError(p, i, "unknown message", {})), ok |-> FALSE]
    ELSE IF ~ValidateBasic(msg)
    THEN [res |-> Res(p, <<>>, <<>>,
                      WrapError(p, i, "message failed ValidateBasic", {msg.from})),
          ok |-> FALSE]
    ELSE IF RoundOf(msg) < p.number
    THEN [res |-> Res(p, <<>>, <<>>, NoErr), ok |-> FALSE]
    ELSE IF HasRound(p) /\ RoundOf(msg) = p.number
    THEN UpdateResult(Advance(StoreMessage(p, msg), i))
    ELSE [res |-> Res(StoreMessage(p, msg), <<>>, <<>>, NoErr), ok |-> TRUE]

\* Update(msg) that stores the message of a round the party has left
UpdateStoresPastRound(p, i, msg) ==
    IF msg.from \notin Parties \/ RoundOf(msg) = 0
    THEN [res |-> Res(p, <<>>, <<>>, WrapError(p, i, "unknown message", {})), ok |-> FALSE]
    ELSE IF RoundOf(msg) >= p.number /\ SlotOf(p, msg) # NilMsg
    THEN [res |-> Res(p, <<>>, <<>>, WrapError(p, i, "duplicate message", {msg.from})),
          ok |-> FALSE]
    ELSE IF ~ValidateBasic(msg)
    THEN [res |-> Res(p, <<>>, <<>>,
                      WrapError(p, i, "message failed ValidateBasic", {msg.from})),
          ok |-> FALSE]
    ELSE IF HasRound(p) /\ RoundOf(msg) = p.number
    THEN UpdateResult(Advance(StoreMessage(p, msg), i))
    ELSE [res |-> Res(StoreMessage(p, msg), <<>>, <<>>, NoErr), ok |-> TRUE]

\* Update(msg) of party i: what the call does to the party and sends, and the
\* ok flag it returns
Update(p, i, msg) ==
    IF msg.from \notin Parties \/ RoundOf(msg) = 0
    THEN [res |-> Res(p, <<>>, <<>>, WrapError(p, i, "unknown message", {})), ok |-> FALSE]
    ELSE IF RoundOf(msg) >= p.number /\ SlotOf(p, msg) # NilMsg
    THEN [res |-> Res(p, <<>>, <<>>, WrapError(p, i, "duplicate message", {msg.from})),
          ok |-> FALSE]
    ELSE IF ~ValidateBasic(msg)
    THEN [res |-> Res(p, <<>>, <<>>,
                      WrapError(p, i, "message failed ValidateBasic", {msg.from})),
          ok |-> FALSE]
    ELSE IF RoundOf(msg) < p.number
    THEN [res |-> Res(p, <<>>, <<>>, NoErr), ok |-> FALSE]
    ELSE IF HasRound(p) /\ RoundOf(msg) = p.number
    THEN UpdateResult(Advance(StoreMessage(p, msg), i))
    ELSE [res |-> Res(StoreMessage(p, msg), <<>>, <<>>, NoErr), ok |-> TRUE]

(* ------------------------------- the host ----------------------------- *)

\* the outbound channel is made with one buffer slot per party
OutChCap == NParties

NoRet == [op |-> "none", party |-> -1, ok |-> TRUE, err |-> NoErr, from |-> -1]

\* messages a peer j that does not follow the protocol can send to a party:
\* a round-1 message with an empty commitment, one that is not a broadcast, a
\* commitment to a three-part decommitment with that decommitment and a proof
\* for it, and any value as its share of s
CraftedD(j) == <<1, PointX(ScalarBaseMult(Nonce(j))), PointY(ScalarBaseMult(Nonce(j)))>>

CraftedProof(j) == SchnorrProve(Nonce(j), ProofNonce(j))

CraftedMessages(j) ==
    {NewSignRound1Message(j, 0),
     [NewSignRound1Message(j, CommitHash(CraftedD(j))) EXCEPT !.isBroadcast = FALSE],
     NewSignRound1Message(j, CommitHash(CraftedD(j))),
     [NilMsg EXCEPT !.type = "SignRound2Message", !.from = j, !.isBroadcast = TRUE,
                    !.DeCommitment = [k \in 1 .. 3 |-> BytesOf(CraftedD(j)[k])],
                    !.ProofAlphaX = BytesOf(PointX(CraftedProof(j).Alpha)),
                    !.ProofAlphaY = BytesOf(PointY(CraftedProof(j).Alpha)),
                    !.ProofT = BytesOf(CraftedProof(j).T)]}
    \cup {NewSignRound3Message(j, s) : s \in Scalars}

Init ==
    /\ build \in Builds
    /\ \E in \in TestInputs : m = in.m /\ fullBytesLen = in.fullBytesLen
    /\ party = [i \in Parties |-> NewLocalParty]
    /\ outCh = <<>>
    /\ endCh = <<>>
    /\ pending = {}
    /\ ret = NoRet

\* the effect of a call on party i that returned res
Apply(i, res) ==
    /\ Len(outCh) + Len(res.out) <= OutChCap
    /\ party' = [party EXCEPT ![i] = res.p]
    /\ outCh' = outCh \o res.out
    /\ endCh' = endCh \o [k \in 1 .. Len(res.end) |-> [from |-> i, data |-> res.end[k]]]

Started(i, res) ==
    /\ Apply(i, res)
    /\ ret' = [op |-> "Start", party |-> i, ok |-> ~IsErr(res.err),
               err |-> res.err, from |-> -1]

\* the host calls Start() on a party it has not started
PartyStart(i) ==
    /\ party[i].rnd = "nil"
    /\ \E res \in {round1Start([party[i] EXCEPT !.rnd = "round1"], i)} : Started(i, res)
    /\ UNCHANGED <<build, m, fullBytesLen, pending>>

\* the host calls Start() of the round a party is in once more
StartAgain(i) ==
    /\ HasRound(party[i])
    /\ \E res \in {RoundStart(party[i], i)} : Started(i, res)
    /\ UNCHANGED <<build, m, fullBytesLen, pending>>

\* the host takes a message from the outbound channel and spawns an updater
\* for every party but the sender
HostRoute ==
    /\ outCh # <<>>
    /\ pending' = pending \cup {[to |-> j, msg |-> Head(outCh)] :
                                  j \in Parties \ {Head(outCh).from}}
    /\ outCh' = Tail(outCh)
    /\ UNCHANGED <<build, m, fullBytesLen, party, endCh, ret>>

Updated(i, msg, u) ==
    /\ Apply(i, u.res)
    /\ ret' = [op |-> "Update", party |-> i, ok |-> u.ok,
               err |-> u.res.err, from |-> msg.from]

\* an updater that hands a party its own message
SharedPartyUpdaterNoSelfCheck(i, msg) ==
    \E u \in {Update(party[i], i, msg)} : Updated(i, msg, u)

\* SharedPartyUpdater: nothing for a party's own message, Update(msg) otherwise
SharedPartyUpdater(i, msg) ==
    IF i = msg.from
    THEN /\ ret' = [op |-> "Discard", party |-> i, ok |-> TRUE, err |-> NoErr,
                    from |-> msg.from]
         /\ UNCHANGED <<party, outCh, endCh>>
    ELSE \E u \in {Update(party[i], i, msg)} : Updated(i, msg, u)

\* an updater goroutine runs
Deliver(d) ==
    /\ d \in pending
    /\ party[d.to].rnd # "panicked"
    /\ SharedPartyUpdater(d.to, d.msg)
    /\ pending' = pending \ {d}
    /\ UNCHANGED <<build, m, fullBytesLen>>

\* the parties that are also handed messages the host did not route; the
\* last party only gets what the host routes
Victims == Parties \ {NParties - 1}

\* what can reach party i besides the routed messages: the crafted messages
\* of its peers and party i's own round-1 message
Unrouted(i) ==
    UNION {CraftedMessages(j) : j \in Parties \ {i}} \cup
    (IF party[i].signRound1Messages[i] # NilMsg THEN {party[i].signRound1Messages[i]} ELSE {})

\* the host hands party i's updater a message it did not route
DeliverCrafted(i, msg) ==
    /\ party[i].rnd # "panicked"
    /\ SharedPartyUpdater(i, msg)
    /\ UNCHANGED <<build, m, fullBytesLen, pending>>

Next ==
    \/ \E i \in Parties : PartyStart(i)
    \/ \E i \in Parties : StartAgain(i)
    \/ HostRoute
    \/ \E d \in pending : Deliver(d)
    \/ \E i \in Victims : \E msg \in Unrouted(i) : DeliverCrafted(i, msg)

Spec == Init /\ [][Next]_vars

\* the run of the signing tests: every party follows the protocol
NextHonest ==
    \/ \E i \in Parties : PartyStart(i)
    \/ HostRoute
    \/ \E d \in pending : Deliver(d)

SpecHonest == Init /\ [][NextHonest]_vars

\* the run of the signing tests under a host that keeps routing and delivering
SpecHonestFair == SpecHonest /\ WF_vars(NextHonest)

(* ------------------------------- properties --------------------------- *)

\* the slots of round r of a party
SlotsOf(p, r) ==
    CASE r = 1 -> p.signRound1Messages
      [] r = 2 -> p.signRound2Messages
      [] OTHER -> p.signRound3Messages

\* every slot of round r holds a message that round r accepts
AllAccepted(p, r) ==
    \A j \in Parties :
        /\ SlotsOf(p, r)[j] # NilMsg
        /\ RoundOf(SlotsOf(p, r)[j]) = r
        /\ SlotsOf(p, r)[j].isBroadcast

\* party i has sent its SignatureData on the end channel
Ended(i) == \E k \in 1 .. Len(endCh) : endCh[k].from = i

\* C1: CanProceed() is true exactly when started is true and every ok[j] is
\* true, whatever the round's other fields (so it is false for a round that
\* NextRound() has returned and that has not been started), and a party's
\* round number grows only from a started round and only past rounds whose
\* slots all hold a message the round accepts.
C1_PromotionOnlyWhenReady ==
    /\ [](\A i \in Parties : \A st \in BOOLEAN : \A ok \in [Parties -> BOOLEAN] :
            CanProceed([party[i] EXCEPT !.started = st, !.ok = ok])
              = (st /\ \A j \in Parties : ok[j]))
    /\ [](\A i \in Parties :
            party[i].rnd \in {"round1", "round2", "round3"}
              => ~CanProceed(NextRound([party[i] EXCEPT !.ok = [j \in Parties |-> TRUE]])))
    /\ [][\A i \in Parties :
            party'[i].number > party[i].number
              => /\ HasRound(party[i])
                 /\ party[i].started
                 /\ \A r \in 1 .. 3 :
                      (party[i].number <= r /\ r < party'[i].number)
                        => AllAccepted(party'[i], r)]_vars

C1_Witness ==
    \E i \in Parties :
        /\ party[i].rnd = "round2"
        /\ party[i].started
        /\ AllAccepted(party[i], 1)
        /\ ~CanProceed(party[i])

\* C2: round 1's Update() sets ok[j] only for a slot that holds a broadcast
\* SignRound1Message, leaves every ok[j] that is true as it is, changes nothing
\* but ok[], returns true exactly when every ok[j] is true after the scan, and
\* returns no error.
C2_Round1Update ==
    \A i \in Parties :
        /\ \A j \in Parties :
              /\ party[i].ok[j] => round1Update(party[i]).p.ok[j]
              /\ (round1Update(party[i]).p.ok[j] /\ ~party[i].ok[j])
                   => /\ party[i].signRound1Messages[j] # NilMsg
                      /\ party[i].signRound1Messages[j].type = "SignRound1Message"
                      /\ party[i].signRound1Messages[j].isBroadcast
        /\ round1Update(party[i]).p = [party[i] EXCEPT !.ok = round1Update(party[i]).p.ok]
        /\ round1Update(party[i]).ret = (\A j \in Parties : round1Update(party[i]).p.ok[j])
        /\ round1Update(party[i]).err = NoErr

C2_Witness ==
    \E i \in Parties : \E j \in Parties :
        /\ party[i].rnd = "round1"
        /\ party[i].ok[i]
        /\ party[i].signRound1Messages[j] # NilMsg
        /\ ~party[i].signRound1Messages[j].isBroadcast
        /\ ~party[i].ok[j]
        /\ ~round1Update(party[i]).ret

\* C3: while the round-r message of peer j has not reached party i, party i
\* is not past round r, has sent nothing on the end channel, and once it has
\* started round r its WaitingFor() contains j.
C3_MissingMessageBlocks ==
    \A i \in Parties : \A j \in Parties \ {i} : \A r \in 1 .. 3 :
        SlotsOf(party[i], r)[j] = NilMsg
          => /\ party[i].number <= r
             /\ ~Ended(i)
             /\ (party[i].number = r /\ party[i].started)
                  => \E k \in 1 .. Len(WaitingFor(party[i])) : WaitingFor(party[i])[k] = j

C3_Witness ==
    \E i \in Parties : \E j \in Parties \ {i} :
        /\ party[i].rnd = "round2"
        /\ party[i].started
        /\ party[i].signRound2Messages[j] = NilMsg
        /\ WaitingFor(party[i]) = <<j>>
        /\ pending = {}
        /\ outCh = <<>>

\* every party has been started and the host has nothing left to route or deliver
AllDelivered ==
    /\ \A i \in Parties : party[i].rnd # "nil"
    /\ outCh = <<>>
    /\ pending = {}

\* C4: in a run in which every party follows the protocol and the host
\* delivers every outbound message once, in any order, no call returns an
\* error, no two parties send different (R, s), and when everything has been
\* delivered every party has sent its output.
C4_SameSignatureNoError ==
    /\ ~IsErr(ret.err)
    /\ \A a \in 1 .. Len(endCh) : \A b \in 1 .. Len(endCh) :
          /\ endCh[a].data.R = endCh[b].data.R
          /\ endCh[a].data.S = endCh[b].data.S
    /\ AllDelivered => \A i \in Parties : Ended(i)

\* C5: in a run of parties that follow the protocol, all started, under a host
\* that keeps draining the outbound channel and delivering, every party
\* eventually sends its SignatureData on the end channel.
C5_EveryPartyEnds == <>(\A i \in Parties : Ended(i))

\* the check of an unmodified EdDSA verifier on the signature in d for the
\* message given to the parties: s.G = R + k.Y, k the signature hash of
\* encode(R) || encode(Y) || m reduced mod N
StandardVerify(d) ==
    \E R \in Scalars :
        /\ EncodePoint(R) = SetBytes(d.R)
        /\ SetBytes(d.S) % N
             = (R + (Sha512(flattenByteSlices(<<d.R, BytesOf(EncodePoint(EDDSAPub)),
                                                 MessageBytes>>)) % N) * EDDSAPub) % N

\* C6: every signature (R, s) sent on the end channel verifies under an
\* unmodified EdDSA verifier with the group public key Y and the message m.
C6_VerifiesUnderStandardEdDSA ==
    \A k \in 1 .. Len(endCh) : StandardVerify(endCh[k].data)

\* the self-verification of the linked finalization, on the data it sent
SelfVerified(d) ==
    IF build = "finalize.go"
    THEN EdwardsVerify(EDDSAPub, d.M, SetBytes(d.R), SetBytes(d.S))
    ELSE PoseidonVerify(EDDSAPub, d.M, SetBytes(d.R), SetBytes(d.S))

VerificationFailed(r) ==
    /\ r.op = "Update"
    /\ r.err.err = "poseidon-based signature verification failed"

\* C7: whatever is on the end channel has passed finalization's
\* self-verification against Y; the call in which the self-verification fails
\* returns an error and sends nothing, and the party whose finalization
\* failed stays as it is and never sends.
C7_EndOnlyAfterSelfVerification ==
    /\ [](\A k \in 1 .. Len(endCh) : SelfVerified(endCh[k].data))
    /\ [](\A i \in Parties : party[i].rnd = "finalization" => ~Ended(i))
    /\ [][/\ VerificationFailed(ret') => (endCh' = endCh /\ ~ret'.ok)
          /\ \A i \in Parties :
                party[i].rnd = "finalization" => party'[i] = party[i]]_vars

C7_Witness ==
    /\ VerificationFailed(ret)
    /\ party[ret.party].rnd = "finalization"
    /\ party[ret.party].data.S # <<>>
    /\ ~SelfVerified(party[ret.party].data)
    /\ ~Ended(ret.party)

\* the sum of the party's own s_i and of the S fields in the peers' slots
SumOfShares(p, i) ==
    SumOver([j \in Parties |-> IF j = i THEN p.si
                               ELSE SetBytes(p.signRound3Messages[j].S)],
            NParties - 1) % N

\* C8: the s that finalization computes is (s_i + the sum over the peers j of
\* the S field of slot j) mod N, s_i taken from the party's temp data.
C8_AggregatedS ==
    /\ \A i \in Parties :
          party[i].number = 4 => SetBytes(party[i].data.S) = SumOfShares(party[i], i)
    /\ \A k \in 1 .. Len(endCh) :
          SetBytes(endCh[k].data.S) = SumOfShares(party[endCh[k].from], endCh[k].from)

C8_Witness ==
    \E i \in Parties : \E j \in Parties \ {i} :
        /\ Ended(i)
        /\ party[i].number = 4
        /\ SetBytes(party[i].signRound3Messages[j].S) % N # 0
        /\ party[i].si # 0
        /\ SetBytes(party[i].data.S) # party[i].si

\* C9: the SignatureData on the end channel carries the byte string of the
\* message given to the party (padded to fullBytesLen when that was given) in
\* M, and the aggregated R and s in R and S.
C9_DataCarriesMessage ==
    \A k \in 1 .. Len(endCh) :
        /\ endCh[k].data.M = MessageBytes
        /\ endCh[k].data.R = BytesOf(party[endCh[k].from].r)
        /\ SetBytes(endCh[k].data.S) = SumOfShares(party[endCh[k].from], endCh[k].from)

\* the messages that can be handed to a party's Update
Candidates == UNION {CraftedMessages(j) : j \in Parties} \cup {d.msg : d \in pending}

ValidateBasicFailed(r) ==
    /\ r.op = "Update"
    /\ r.err.err = "message failed ValidateBasic"

\* C10: for a party in a round, Update(msg) with a message of peer j that
\* fails ValidateBasic returns ok = false and an error with the task name, the
\* party's round number, the party as victim and j as the only culprit; it
\* stores nothing, sends nothing and leaves the party as it was.
C10_ValidateBasicCulprit ==
    /\ [](\A i \in Parties : \A msg \in Candidates :
            (HasRound(party[i]) /\ msg.from # i /\ ~ValidateBasic(msg))
              => \A u \in {Update(party[i], i, msg)} :
                    /\ ~u.ok
                    /\ IsErr(u.res.err)
                    /\ u.res.err.task = "eddsa-signing"
                    /\ u.res.err.round = party[i].number
                    /\ u.res.err.victim = i
                    /\ u.res.err.culprits = {msg.from}
                    /\ u.res.p = party[i]
                    /\ u.res.out = <<>>
                    /\ u.res.end = <<>>)
    /\ [][ValidateBasicFailed(ret')
            => /\ party' = party
               /\ Len(outCh') <= Len(outCh)
               /\ endCh' = endCh
               /\ ~ret'.ok
               /\ ret'.err.culprits = {ret'.from}
               /\ ret'.err.victim = ret'.party]_vars

C10_Witness ==
    /\ ValidateBasicFailed(ret)
    /\ HasRound(party[ret.party])
    /\ ret.err.round = party[ret.party].number
    /\ ret.err.culprits = {ret.from}
    /\ party[ret.party].signRound1Messages[ret.from] = NilMsg

\* the slot of a round the party has not left: the slots that Update(msg)
\* checks and writes
Occupied(p, msg) ==
    /\ msg.from \in Parties
    /\ RoundOf(msg) # 0
    /\ RoundOf(msg) >= p.number
    /\ SlotOf(p, msg) # NilMsg

OfLaterRound(p, msg) == RoundOf(msg) > p.number \/ ~HasRound(p)

\* CanAccept of the party's current round
RoundCanAccept(p, msg) ==
    CASE p.rnd = "round1" -> round1CanAccept(msg)
      [] p.rnd = "round2" -> round2CanAccept(msg)
      [] p.rnd = "round3" -> round3CanAccept(msg)
      [] OTHER -> finalizationCanAccept(msg)

\* C12: a valid message of a round later than the party's current round is
\* accepted and stored, and the call leaves the round, the round number and
\* ok[] as they were and sends nothing; once the party is in that round, the
\* round's update() counts the stored message (ok[sender] is set) although
\* the message is not delivered again
C12_LaterRoundBuffered ==
    /\ [](\A i \in Parties : \A msg \in Candidates :
            ( /\ msg.from \in Parties \ {i}
              /\ RoundOf(msg) # 0
              /\ OfLaterRound(party[i], msg)
              /\ SlotOf(party[i], msg) = NilMsg
              /\ ValidateBasic(msg) ) =>
                \E u \in {Update(party[i], i, msg)} :
                    /\ u.ok
                    /\ ~IsErr(u.res.err)
                    /\ u.res.p = StoreMessage(party[i], msg)
                    /\ SlotOf(u.res.p, msg) = msg
                    /\ u.res.p.rnd = party[i].rnd
                    /\ u.res.p.number = party[i].number
                    /\ u.res.p.ok = party[i].ok
                    /\ u.res.out = <<>>
                    /\ u.res.end = <<>>)
    /\ [](\A i \in Parties : \A j \in Parties :
            ( /\ party[i].rnd \in {"round1", "round2", "round3"}
              /\ party[i].started
              /\ SlotsOf(party[i], party[i].number)[j] # NilMsg
              /\ RoundCanAccept(party[i], SlotsOf(party[i], party[i].number)[j]) ) =>
                RoundUpdate(party[i]).p.ok[j])
    /\ [][\A i \in Parties : \A r \in 1 .. 3 : \A j \in Parties \ {i} :
              ( /\ SlotsOf(party[i], r)[j] = NilMsg
                /\ SlotsOf(party'[i], r)[j] # NilMsg
                /\ (r > party[i].number \/ ~HasRound(party[i])) ) =>
                  /\ party'[i] = StoreMessage(party[i], SlotsOf(party'[i], r)[j])
                  /\ outCh' = outCh
                  /\ endCh' = endCh]_vars

\* a party was handed a peer's round-1 message before it started, has now
\* started round 1, and the next update() counts the stored message
C12_Witness ==
    \E i \in Parties : \E j \in Parties \ {i} :
        /\ ret.op = "Start"
        /\ ret.party = i
        /\ party[i].rnd = "round1"
        /\ party[i].started
        /\ ~party[i].ok[j]
        /\ party[i].signRound1Messages[j] # NilMsg
        /\ round1Update(party[i]).p.ok[j]

\* the call returned that the message was dropped: not ok, and no error
Dropped(r) == r.op = "Update" /\ ~r.ok /\ ~IsErr(r.err)

\* C13: Update(msg) with a message of a round the party has left stores
\* nothing: the party (its slots, ok[], round number and temporary data) is as
\* before and nothing is sent on the outbound or the end channel; a message
\* that passes ValidateBasic is dropped without an error; and no step changes
\* a slot of a round the party has left
C13_PastRoundDropped ==
    /\ [](\A i \in Parties : \A msg \in Candidates :
            ( /\ msg.from \in Parties \ {i}
              /\ RoundOf(msg) # 0
              /\ RoundOf(msg) < party[i].number ) =>
                \E u \in {Update(party[i], i, msg)} :
                    /\ ~u.ok
                    /\ u.res.p = party[i]
                    /\ u.res.out = <<>>
                    /\ u.res.end = <<>>
                    /\ (ValidateBasic(msg) => ~IsErr(u.res.err)))
    /\ [][/\ \A i \in Parties : \A r \in 1 .. 3 :
                (r < party[i].number => SlotsOf(party'[i], r) = SlotsOf(party[i], r))
           /\ (Dropped(ret') =>
                  /\ party' = party
                  /\ endCh' = endCh
                  /\ Len(outCh') <= Len(outCh))]_vars

\* a party that has left round 1 was handed a message of a round it has left
\* and dropped it
C13_Witness ==
    /\ Dropped(ret)
    /\ ret.from # ret.party
    /\ party[ret.party].number > 1
    /\ \A r \in 1 .. (party[ret.party].number - 1) :
           SlotsOf(party[ret.party], r)[ret.from] # NilMsg

\* C14: no party sends a message addressed to itself: every message on the
\* outbound channel is a broadcast (without a destination list) and the host
\* spawns no updater of the sender for it; and the updater that is handed a
\* message of the party it runs for discards it: Update is never called with
\* the party's own message, and the discarding step changes no party and
\* sends nothing
C14_NoSelfDelivery ==
    /\ [](/\ \A k \in 1 .. Len(outCh) : outCh[k].isBroadcast /\ outCh[k].from \in Parties
           /\ \A d \in pending : d.to # d.msg.from
           /\ (ret.op = "Update" => ret.from # ret.party)
           /\ (ret.op = "Discard" => ret.from = ret.party))
    /\ [][/\ (ret'.op = "Discard" =>
                  /\ party' = party
                  /\ endCh' = endCh
                  /\ Len(outCh') <= Len(outCh))
           /\ \A i \in Parties :
                (party'[i] # party[i] /\ ret'.op = "Update") => ret'.from # i]_vars

\* the host handed a started party its own round-1 message and the updater
\* discarded it
C14_Witness ==
    /\ ret.op = "Discard"
    /\ ret.from = ret.party
    /\ party[ret.party].started
    /\ party[ret.party].signRound1Messages[ret.party] # NilMsg

\* Start() returned that the round was started already
AlreadyStarted(r) == r.op = "Start" /\ r.err.err = "round already started"

\* C15: Start() of a round that is started returns the error 'round already
\* started', sends nothing and leaves the party (started, round number, ok[],
\* temporary data) as it was; started goes from false to true only in a
\* Start(), no update() changes it, the round that NextRound() returns has it
\* cleared, and between two calls of the host a started party is never seen
\* not started
C15_StartOnce ==
    /\ [](\A i \in Parties :
            /\ (HasRound(party[i]) /\ party[i].started) =>
                  \E res \in {RoundStart(party[i], i)} :
                      /\ res.err.err = "round already started"
                      /\ res.p = party[i]
                      /\ res.out = <<>>
                      /\ res.end = <<>>
            /\ HasRound(party[i]) =>
                  /\ RoundUpdate(party[i]).p.started = party[i].started
                  /\ HasRound(NextRound(party[i])) => ~NextRound(party[i]).started)
    /\ [][/\ (AlreadyStarted(ret') =>
                  /\ party' = party
                  /\ endCh' = endCh
                  /\ Len(outCh') <= Len(outCh))
           /\ \A i \in Parties :
                /\ (~party[i].started /\ party'[i].started) =>
                       (ret'.op = "Start" /\ ret'.party = i /\ ~IsErr(ret'.err))
                /\ party[i].started => party'[i].started]_vars

\* the host called Start() on a party whose round was started and got the
\* error
C15_Witness ==
    /\ AlreadyStarted(ret)
    /\ ~ret.ok
    /\ ret.party \in Parties
    /\ party[ret.party].started
    /\ party[ret.party].number > 1

\* C16: for every value of ok[], WaitingFor() of a round returns the parties
\* at the indices j with ok[j] false and no others, in increasing index order
\* and each once; it returns the empty list exactly when every ok[j] is true.
\* It returns the list only: the party it is called on is not changed
C16_WaitingFor ==
    \A i \in Parties : \A ok \in [Parties -> BOOLEAN] :
        \E w \in {WaitingFor([party[i] EXCEPT !.ok = ok])} :
            /\ \A k \in 1 .. Len(w) : w[k] \in Parties /\ ~ok[w[k]]
            /\ \A j \in Parties : ~ok[j] => \E k \in 1 .. Len(w) : w[k] = j
            /\ \A k1 \in 1 .. Len(w) : \A k2 \in 1 .. Len(w) : k1 < k2 => w[k1] < w[k2]
            /\ (w = <<>>) <=> (\A j \in Parties : ok[j])
            /\ Len(w) = Cardinality({j \in Parties : ~ok[j]})

\* one party has every message of its round and waits for nobody, while
\* another, in round 2, waits for exactly one peer
C16_Witness ==
    \E i \in Parties : \E j \in Parties \ {i} :
        /\ party[i].started
        /\ party[i].number = 2
        /\ party[i].ok[i]
        /\ WaitingFor(party[i]) = <<j>>
        /\ party[j].started
        /\ party[j].number > 2
        /\ WaitingFor(party[j]) = <<>>

(* ------------------- verifiable secret sharing (vss) ------------------ *)

\* the key of party j, the point at which the polynomials are evaluated
KeyInt(j) == j + 1

\* the keys of the parties, in index order
Ks == [k \in 1 .. NParties |-> KeyInt(k - 1)]

\* a CheckIndexes that does not reject an id that is 0 modulo N
CheckIndexesAllowsZero(ids) ==
    \A k1 \in 1 .. Len(ids) : \A k2 \in 1 .. Len(ids) :
        k1 # k2 => ids[k1] % N # ids[k2] % N

\* CheckIndexes: every id mod N is non-zero and no two ids are equal mod N
CheckIndexes(ids) ==
    /\ \A k \in 1 .. Len(ids) : ids[k] % N # 0
    /\ \A k1 \in 1 .. Len(ids) : \A k2 \in 1 .. Len(ids) :
           k1 # k2 => ids[k1] % N # ids[k2] % N

RECURSIVE evaluatePolynomial(_, _)
\* v[1] + v[2] * id + v[3] * id^2 + ... mod N
evaluatePolynomial(v, id) ==
    IF v = <<>> THEN 0 ELSE (Head(v) + id * evaluatePolynomial(Tail(v), id)) % N

\* Create(threshold, secret, ids) with the coefficients a_1 .. a_t the rng
\* yields: the commitments vs[k] = a_k * G and one share per id
Create(threshold, secret, ids, coeffs) ==
    IF threshold < 1 \/ Len(ids) <= threshold \/ ~CheckIndexes(ids)
    THEN [err |-> TRUE, vs |-> <<>>, shares |-> <<>>]
    ELSE [err |-> FALSE,
          vs |-> [k \in 1 .. (threshold + 1) |-> ScalarBaseMult((<<secret>> \o coeffs)[k])],
          shares |-> [k \in 1 .. Len(ids) |->
                        [Threshold |-> threshold, ID |-> ids[k],
                         Share |-> evaluatePolynomial(<<secret>> \o coeffs, ids[k])]]]

RECURSIVE VerifySum(_, _, _)
\* the sum over k of (id^k mod N) * vs[k], for the commitments from vs[k] on
VerifySum(vs, id, pow) ==
    IF vs = <<>> THEN 0
    ELSE PointAdd(ScalarMult(Head(vs), pow), VerifySum(Tail(vs), id, (pow * id) % N))

\* a Verify that accepts every share
VerifyAcceptsAll(share, threshold, vs) == TRUE

\* a Verify that compares the share with the first commitment only
VerifyFirstCommitmentOnly(share, threshold, vs) ==
    /\ share.Threshold = threshold
    /\ Len(vs) = threshold + 1
    /\ vs[1] = ScalarBaseMult(share.Share)

\* share.Verify(threshold, vs): share * G = sum of id^k * vs[k]
Verify(share, threshold, vs) ==
    /\ share.Threshold = threshold
    /\ Len(vs) = threshold + 1
    /\ VerifySum(vs, share.ID, 1) = ScalarBaseMult(share.Share)

\* the inverse of a mod N (N is prime, a is not 0 mod N)
ModInverse(a) == CHOOSE b \in Scalars : (a * b) % N = 1

RECURSIVE LagrangeAtZero(_, _, _)
\* the product over the shares j # i, from index j on, of
\* (-id_j) * (id_i - id_j)^-1 mod N
LagrangeAtZero(shares, i, j) ==
    IF j > Len(shares) THEN 1
    ELSE IF j = i THEN LagrangeAtZero(shares, i, j + 1)
    ELSE ((N - (shares[j].ID % N)) * ModInverse((N + shares[i].ID - shares[j].ID) % N)
          * LagrangeAtZero(shares, i, j + 1)) % N

\* ReConstruct rejects a list that is shorter than the threshold of its
\* shares: a list of threshold - 1 shares is an error, one of threshold shares
\* is not
TooFewShares(shares) == shares[1].Threshold > Len(shares)

\* shares.ReConstruct(): an error, or the value at 0 of the polynomial through
\* the shares
ReConstruct(shares) ==
    IF TooFewShares(shares) \/ ~CheckIndexes([k \in 1 .. Len(shares) |-> shares[k].ID])
    THEN [err |-> TRUE, secret |-> -1]
    ELSE [err |-> FALSE,
          secret |-> SumOver([k \in 0 .. (Len(shares) - 1) |->
                                 LagrangeAtZero(shares, k + 1, 1) * shares[k + 1].Share],
                             Len(shares) - 1) % N]

(* ------------------------ distributed key generation ------------------ *)

\* the rng of a party yields values up to MaxSample: the secret u_i is drawn
\* from 1 .. MaxSample, a coefficient of the polynomial from 0 .. MaxSample
MaxSample == 2

KGTaskName == "eddsa-keygen"

KGNilMsg ==
    [type |-> "nil", from |-> -1, to |-> -1, Commitment |-> 0, Share |-> 0,
     DeCommitment |-> <<>>, Proof |-> [Alpha |-> -1, T |-> 0]]

\* round 1: the broadcast of the commitment C_i
NewKGRound1Message(from, C) ==
    [KGNilMsg EXCEPT !.type = "KGRound1Message", !.from = from, !.Commitment = C]

\* round 2: the share of P_to, sent to P_to only
NewKGRound2Message1(to, from, share) ==
    [KGNilMsg EXCEPT !.type = "KGRound2Message1", !.from = from, !.to = to,
                     !.Share = share.Share]

\* round 2: the broadcast of the decommitment D_i and the proof for vs_i[0]
NewKGRound2Message2(from, D, proof) ==
    [KGNilMsg EXCEPT !.type = "KGRound2Message2", !.from = from, !.DeCommitment = D,
                     !.Proof = proof]

KGValidateBasic(msg) ==
    CASE msg.type = "KGRound1Message" -> NonEmptyBytes(BytesOf(msg.Commitment))
      [] msg.type = "KGRound2Message1" -> NonEmptyBytes(BytesOf(msg.Share))
      [] msg.type = "KGRound2Message2" ->
            /\ Len(msg.DeCommitment) # 0
            /\ \A k \in 1 .. Len(msg.DeCommitment) :
                   NonEmptyBytes(BytesOf(msg.DeCommitment[k]))
            /\ msg.Proof.Alpha # -1
            /\ NonEmptyBytes(BytesOf(msg.Proof.T))
      [] OTHER -> FALSE

KGRoundOf(msg) ==
    CASE msg.type = "KGRound1Message" -> 1
      [] msg.type = "KGRound2Message1" -> 2
      [] msg.type = "KGRound2Message2" -> 2
      [] OTHER -> 0

\* the coordinates of the points, x then y, point after point
FlattenECPoints(ps) ==
    [k \in 1 .. (2 * Len(ps)) |->
        IF k % 2 = 1 THEN PointX(ps[(k + 1) \div 2]) ELSE PointY(ps[k \div 2])]

\* the points of a list of coordinates; <<>> (an error) when the list has an
\* odd length or a pair is not a point of the curve
UnFlattenECPoints(flat) ==
    IF Len(flat) % 2 = 1 \/ \E k \in 1 .. (Len(flat) \div 2) :
                                 NewECPoint(flat[2 * k - 1], flat[2 * k]) = -1
    THEN <<>>
    ELSE [k \in 1 .. (Len(flat) \div 2) |-> NewECPoint(flat[2 * k - 1], flat[2 * k])]

EmptySave == [Xi |-> -1, ShareID |-> -1, Ks |-> <<>>, BigXj |-> <<>>, EDDSAPub |-> -1]

\* a keygen party as NewLocalParty builds it: empty temp and save data
NewKGParty(threshold) ==
    [rnd |-> "nil", number |-> 1, started |-> FALSE,
     ok |-> [j \in Parties |-> FALSE],
     threshold |-> threshold,
     ui |-> -1, vs |-> <<>>, shares |-> <<>>, deCommit |-> <<>>,
     kgRound1Messages |-> [j \in Parties |-> KGNilMsg],
     kgRound2Message1s |-> [j \in Parties |-> KGNilMsg],
     kgRound2Message2s |-> [j \in Parties |-> KGNilMsg],
     data |-> EmptySave]

KGWrapError(p, self, err, culprits) ==
    [task |-> KGTaskName, round |-> p.number, victim |-> self,
     culprits |-> culprits, err |-> err]

\* round 1: P_i shares the secret ui it drew, commits to the commitments vs
\* of its polynomial and broadcasts the commitment
kgRound1Start(p, i, ui, coeffs) ==
    IF p.started
    THEN Res(p, <<>>, <<>>, KGWrapError(p, i, "round already started", {}))
    ELSE LET p1 == resetOK([p EXCEPT !.number = 1, !.started = TRUE])
             c == Create(p.threshold, ui, Ks, coeffs)
             D == <<Nonce(i)>> \o FlattenECPoints(c.vs)
             msg == NewKGRound1Message(i, CommitHash(D))
         IN  Res([p1 EXCEPT !.ui = ui, !.vs = c.vs, !.shares = c.shares, !.deCommit = D,
                            !.kgRound1Messages[i] = msg,
                            !.data.Ks = Ks, !.data.ShareID = KeyInt(i)],
                 <<msg>>, <<>>, NoErr)

kgRound1Update(p) ==
    [p EXCEPT !.ok = [j \in Parties |->
                        p.ok[j] \/ p.kgRound1Messages[j].type = "KGRound1Message"]]

\* round 2: P_i sends every peer its share, keeps its own, and broadcasts the
\* decommitment with a proof of knowledge of ui for vs[0]
kgRound2Start(p, i) ==
    IF p.started
    THEN Res(p, <<>>, <<>>, KGWrapError(p, i, "round already started", {}))
    ELSE LET p1 == resetOK([p EXCEPT !.number = 2, !.started = TRUE])
             r2msg1s == [j \in Parties |-> NewKGRound2Message1(j, i, p.shares[j + 1])]
             r2msg2 == NewKGRound2Message2(i, p.deCommit, SchnorrProve(p.ui, ProofNonce(i)))
             peers == SelectSeq([k \in 1 .. NParties |-> k - 1], LAMBDA j : j # i)
         IN  Res([p1 EXCEPT !.kgRound2Message1s[i] = r2msg1s[i],
                            !.kgRound2Message2s[i] = r2msg2],
                 [k \in 1 .. Len(peers) |-> r2msg1s[peers[k]]] \o <<r2msg2>>,
                 <<>>, NoErr)

kgRound2Update(p) ==
    [p EXCEPT !.ok = [j \in Parties |->
                        \/ p.ok[j]
                        \/ /\ p.kgRound2Message1s[j].type = "KGRound2Message1"
                           /\ p.kgRound2Message2s[j].type = "KGRound2Message2"]]

\* the commitments vs_j that P_j's decommitment reveals (P_i's own for j = i);
\* <<>> when it reveals none
PeerVs(p, i, j) ==
    IF j = i THEN p.vs
    ELSE IF Len(p.kgRound2Message2s[j].DeCommitment) = 0 THEN <<>>
    ELSE UnFlattenECPoints(Tail(p.kgRound2Message2s[j].DeCommitment))

\* the share P_j dealt to P_i, as P_i holds it
ShareFrom(p, i, j) ==
    [Threshold |-> p.threshold, ID |-> KeyInt(i), Share |-> p.kgRound2Message1s[j].Share]

\* the checks of round 3 on what P_j sent: the decommitment opens the
\* commitment, the proof verifies against vs_j[0], the share verifies
\* against vs_j
KGPeerVerifies(p, i, j) ==
    /\ CommitVerify(p.kgRound1Messages[j].Commitment, p.kgRound2Message2s[j].DeCommitment)
    /\ Len(PeerVs(p, i, j)) = p.threshold + 1
    /\ SchnorrVerify(p.kgRound2Message2s[j].Proof, PeerVs(p, i, j)[1])
    /\ Verify(ShareFrom(p, i, j), p.threshold, PeerVs(p, i, j))

\* the sum of the shares of the peers only
ShareSumNoOwn(p, i) ==
    SumOver([j \in Parties |-> IF j = i THEN 0 ELSE p.kgRound2Message1s[j].Share],
            NParties - 1) % N

\* x_i: the sum of the shares dealt to P_i, its own included, mod N
ShareSum(p, i) ==
    SumOver([j \in Parties |-> p.kgRound2Message1s[j].Share], NParties - 1) % N

\* a group key made of the party's own commitment only
GroupKeyOwn(p, i) == p.vs[1]

\* Y: the sum of the commitments vs_m[0] of all dealers
GroupKey(p, i) ==
    SumOver([j \in Parties |-> PeerVs(p, i, j)[1]], NParties - 1) % N

\* BigX_j: the sum over the dealers m of sum_k id_j^k * vs_m[k]
BigX(p, i, j) ==
    SumOver([mm \in Parties |-> VerifySum(PeerVs(p, i, mm), KeyInt(j), 1)],
            NParties - 1) % N

\* the save data of a party whose checks passed
kgSaveData(p, i) ==
    [p.data EXCEPT !.Xi = ShareSum(p, i),
                   !.BigXj = [k \in 1 .. NParties |-> BigX(p, i, k - 1)],
                   !.EDDSAPub = GroupKey(p, i)]

\* round 3: P_i verifies what every peer sent; a failure is an error naming
\* the peers that failed and nothing is saved; else the save data is filled
\* and sent on the end channel
kgRound3Start(p, i) ==
    IF p.started
    THEN Res(p, <<>>, <<>>, KGWrapError(p, i, "round already started", {}))
    ELSE LET p1 == resetOK([p EXCEPT !.number = 3, !.started = TRUE])
             bad == {j \in Parties \ {i} : ~KGPeerVerifies(p, i, j)}
         IN  IF bad # {}
             THEN Res(p1, <<>>, <<>>, KGWrapError(p1, i, "round 3 verification failed", bad))
             ELSE Res([p1 EXCEPT !.data = kgSaveData(p, i), !.rnd = "done"],
                      <<>>, <<kgSaveData(p, i)>>, NoErr)

KGSlotOf(p, msg) ==
    CASE msg.type = "KGRound1Message" -> p.kgRound1Messages[msg.from]
      [] msg.type = "KGRound2Message1" -> p.kgRound2Message1s[msg.from]
      [] OTHER -> p.kgRound2Message2s[msg.from]

KGStoreMessage(p, msg) ==
    CASE msg.type = "KGRound1Message" -> [p EXCEPT !.kgRound1Messages[msg.from] = msg]
      [] msg.type = "KGRound2Message1" -> [p EXCEPT !.kgRound2Message1s[msg.from] = msg]
      [] OTHER -> [p EXCEPT !.kgRound2Message2s[msg.from] = msg]

\* the result of a Start() with the messages sent before it put in front
KGAfter(out, st) == [st EXCEPT !.out = out \o st.out]

\* after round 2's update(): round 3 is started when round 2 can proceed
KGFromRound2(p, i, out) ==
    IF CanProceed(p)
    THEN KGAfter(out, kgRound3Start([p EXCEPT !.started = FALSE, !.rnd = "round3"], i))
    ELSE Res(p, out, <<>>, NoErr)

\* after round 2's Start(): its update(), and on
KGAfterRound2Start(st, i) == KGFromRound2(kgRound2Update(st.p), i, st.out)

\* after round 1's update(): round 2 is started when round 1 can proceed
KGFromRound1(p, i) ==
    IF CanProceed(p)
    THEN KGAfterRound2Start(kgRound2Start([p EXCEPT !.started = FALSE, !.rnd = "round2"], i), i)
    ELSE Res(p, <<>>, <<>>, NoErr)

\* the round's update() and, while the round can proceed, the next round
KGAdvance(p, i) ==
    CASE p.rnd = "round1" -> KGFromRound1(kgRound1Update(p), i)
      [] p.rnd = "round2" -> KGFromRound2(kgRound2Update(p), i, <<>>)
      [] OTHER -> Res(p, <<>>, <<>>, NoErr)

\* Update(msg) of keygen party i
KGUpdate(p, i, msg) ==
    IF msg.from \notin Parties \/ KGRoundOf(msg) = 0
    THEN [res |-> Res(p, <<>>, <<>>, KGWrapError(p, i, "unknown message", {})), ok |-> FALSE]
    ELSE IF KGRoundOf(msg) >= p.number /\ KGSlotOf(p, msg) # KGNilMsg
    THEN [res |-> Res(p, <<>>, <<>>, KGWrapError(p, i, "duplicate message", {msg.from})),
          ok |-> FALSE]
    ELSE IF ~KGValidateBasic(msg)
    THEN [res |-> Res(p, <<>>, <<>>,
                      KGWrapError(p, i, "message failed ValidateBasic", {msg.from})),
          ok |-> FALSE]
    ELSE IF KGRoundOf(msg) < p.number
    THEN [res |-> Res(p, <<>>, <<>>, NoErr), ok |-> FALSE]
    ELSE IF p.rnd \in {"round1", "round2"} /\ KGRoundOf(msg) = p.number
    THEN UpdateResult(KGAdvance(KGStoreMessage(p, msg), i))
    ELSE [res |-> Res(KGStoreMessage(p, msg), <<>>, <<>>, NoErr), ok |-> TRUE]

(* --------------------------- the keygen host -------------------------- *)

\* what the last call of the host returned; for ReConstruct, the dealer, the
\* holders of the shares handed to it and the value it returned
KGRet(op, i, ok, err, from, holders, secret) ==
    [op |-> op, party |-> i, ok |-> ok, err |-> err, from |-> from,
     holders |-> holders, secret |-> secret]

\* a round-2 message takes one slot per peer and one for the broadcast
KGOutChCap == NParties

InitKeygen ==
    /\ build = "finalize.go"
    /\ m = <<>>
    /\ fullBytesLen = 0
    /\ \E threshold \in 1 .. (NParties - 1) :
           party = [i \in Parties |-> NewKGParty(threshold)]
    /\ outCh = <<>>
    /\ endCh = <<>>
    /\ pending = {}
    /\ ret = KGRet("none", -1, TRUE, NoErr, -1, {}, -1)

KGApply(i, res) ==
    /\ Len(outCh) + Len(res.out) <= KGOutChCap
    /\ party' = [party EXCEPT ![i] = res.p]
    /\ outCh' = outCh \o res.out
    /\ endCh' = endCh \o [k \in 1 .. Len(res.end) |-> [from |-> i, data |-> res.end[k]]]

KGStarted(i, res) ==
    /\ KGApply(i, res)
    /\ ret' = KGRet("Start", i, ~IsErr(res.err), res.err, -1, {}, -1)

\* the host starts a party; the party draws its secret and its polynomial
KGPartyStart(i) ==
    /\ party[i].rnd = "nil"
    /\ \E ui \in 1 .. MaxSample :
         \E coeffs \in [1 .. party[i].threshold -> 0 .. MaxSample] :
           \E res \in {kgRound1Start([party[i] EXCEPT !.rnd = "round1"], i, ui, coeffs)} :
               KGStarted(i, res)
    /\ UNCHANGED <<build, m, fullBytesLen, pending>>

\* the parties the host spawns an updater for: all but the sender for a
\* broadcast, the destination for a message with one
Destinations(msg) == IF msg.to = -1 THEN Parties \ {msg.from} ELSE {msg.to}

KGHostRoute ==
    /\ outCh # <<>>
    /\ Head(outCh).to # Head(outCh).from
    /\ pending' = pending \cup {[to |-> j, msg |-> Head(outCh)] : j \in Destinations(Head(outCh))}
    /\ outCh' = Tail(outCh)
    /\ UNCHANGED <<build, m, fullBytesLen, party, endCh, ret>>

KGUpdated(i, msg, u) ==
    /\ KGApply(i, u.res)
    /\ ret' = KGRet("Update", i, u.ok, u.res.err, msg.from, {}, -1)

\* an updater goroutine runs: nothing for a party's own message
KGDeliver(d) ==
    /\ d \in pending
    /\ IF d.to = d.msg.from
       THEN /\ ret' = KGRet("Discard", d.to, TRUE, NoErr, d.msg.from, {}, -1)
            /\ UNCHANGED <<party, outCh, endCh>>
       ELSE \E u \in {KGUpdate(party[d.to], d.to, d.msg)} : KGUpdated(d.to, d.msg, u)
    /\ pending' = pending \ {d}
    /\ UNCHANGED <<build, m, fullBytesLen>>

\* the share that reaches a victim is not the one its peer dealt: the host
\* replaces the share of a message on its way
KGCorruptShare(d) ==
    /\ d \in pending
    /\ d.to \in Victims
    /\ d.msg.type = "KGRound2Message1"
    /\ d.msg.Share = party[d.msg.from].shares[d.to + 1].Share
    /\ pending' = (pending \ {d}) \cup {[d EXCEPT !.msg.Share = (d.msg.Share + 1) % N]}
    /\ UNCHANGED <<build, m, fullBytesLen, party, outCh, endCh, ret>>

\* the shares that dealer j made for the parties in holders, in index order
SharesOf(j, holders) ==
    SelectSeq(party[j].shares, LAMBDA sh : \E h \in holders : sh.ID = KeyInt(h))

KGReconstructed(j, holders, r) ==
    ret' = KGRet("ReConstruct", j, ~r.err, NoErr, -1, holders, r.secret)

\* once every party has sent its save data, the host reconstructs a dealer's
\* secret from the shares of some of the parties
KGHostReconstruct(j, holders) ==
    /\ Len(endCh) = NParties
    /\ \E r \in {ReConstruct(SharesOf(j, holders))} : KGReconstructed(j, holders, r)
    /\ UNCHANGED <<build, m, fullBytesLen, party, outCh, endCh, pending>>

NextKeygen ==
    \/ \E i \in Parties : KGPartyStart(i)
    \/ KGHostRoute
    \/ \E d \in pending : KGDeliver(d)
    \/ \E d \in pending : KGCorruptShare(d)
    \/ \E j \in Parties : \E holders \in (SUBSET Parties) \ {{}} : KGHostReconstruct(j, holders)

SpecKeygen == InitKeygen /\ [][NextKeygen]_vars

(* --------------------------- keygen properties ------------------------ *)

\* the parties that have sent their save data on the end channel
KGEnded == {endCh[k].from : k \in 1 .. Len(endCh)}

\* the sum of the secrets the parties drew in round 1
SumOfSecrets == SumOver([j \in Parties |-> party[j].ui], NParties - 1) % N

\* the share that dealer j made for party i
Dealt(j, i) == party[j].shares[i + 1].Share

\* the sum of the shares that the dealers made for party i
SumOfDealt(i) == SumOver([j \in Parties |-> Dealt(j, i)], NParties - 1) % N

\* C17: the save data a party sends on the end channel is the data it holds,
\* and its group public key Y is (the sum of the secrets u_j that the
\* parties drew in round 1, mod N) * G, which is the sum of the dealers'
\* commitments vs_j[0]; so all parties that complete hold the same Y
C17_SameGroupKey ==
    \A k \in 1 .. Len(endCh) :
        /\ endCh[k].data = party[endCh[k].from].data
        /\ endCh[k].data.EDDSAPub = ScalarBaseMult(SumOfSecrets)
        /\ endCh[k].data.EDDSAPub =
               SumOver([j \in Parties |-> party[j].vs[1]], NParties - 1) % N
        /\ \A k2 \in 1 .. Len(endCh) : endCh[k2].data.EDDSAPub = endCh[k].data.EDDSAPub

\* every party has completed keygen, two parties drew different secrets, and
\* the key they hold is not the commitment of one dealer alone
C17_Witness ==
    /\ KGEnded = Parties
    /\ \E i \in Parties : \E j \in Parties : party[i].ui # party[j].ui
    /\ \A i \in Parties :
          /\ party[i].data.EDDSAPub = ScalarBaseMult(SumOfSecrets)
          /\ party[i].data.EDDSAPub # party[i].vs[1]

\* C18: the share x_i in the save data of a party that completed is the sum
\* mod N of the shares all dealers made for it, its own included; and in the
\* save data of every party that completed, the public key BigX_i of every
\* party i is (the sum of the shares dealt to i) * G, which is x_i * G for
\* every party i that completed
C18_ShareAndPublicKeys ==
    \A k \in 1 .. Len(endCh) :
        /\ endCh[k].data.Xi = SumOfDealt(endCh[k].from)
        /\ Len(endCh[k].data.BigXj) = NParties
        /\ \A i \in Parties :
              /\ endCh[k].data.BigXj[i + 1] = ScalarBaseMult(SumOfDealt(i))
              /\ i \in KGEnded =>
                    endCh[k].data.BigXj[i + 1] = ScalarBaseMult(party[i].data.Xi)

\* every party has completed keygen with a share that is not the share it
\* dealt to itself, and the public keys of the parties are not all equal
C18_Witness ==
    /\ Len(endCh) = NParties
    /\ \A i \in Parties :
          /\ party[i].data.Xi = SumOfDealt(i)
          /\ party[i].data.Xi # Dealt(i, i)
          /\ party[i].data.BigXj[i + 1] = ScalarBaseMult(party[i].data.Xi)
    /\ \E i \in Parties : \E j \in Parties :
          party[i].data.BigXj[i + 1] # party[i].data.BigXj[j + 1]

\* party i holds the round-2 messages of peer j and the share fails the
\* verification against the commitments vs_j that j decommitted: share * G is
\* not the sum of id_i^k * vs_j[k]
BadShareHeld(p, i, j) ==
    /\ p.kgRound2Message1s[j] # KGNilMsg
    /\ p.kgRound2Message2s[j] # KGNilMsg
    /\ VerifySum(PeerVs(p, i, j), KeyInt(i), 1) #
           ScalarBaseMult(p.kgRound2Message1s[j].Share)

\* C19: a party that holds a round-2 share of a peer that fails the
\* verification against that peer's commitments has sent no save data and
\* holds no key share, public key list or group key; the call that takes it
\* to round 3 returns an error of round 3, sends nothing on the end channel,
\* and the error names the peers whose messages failed: P_j alone when the
\* share of P_j is all that failed
C19_BadShareAborts ==
    /\ [](\A i \in Parties :
            ((\E j \in Parties \ {i} : BadShareHeld(party[i], i, j))
               \/ party[i].rnd = "round3") =>
                /\ i \notin KGEnded
                /\ party[i].data.Xi = -1
                /\ party[i].data.BigXj = <<>>
                /\ party[i].data.EDDSAPub = -1)
    /\ [][\A i \in Parties :
              (party[i].rnd = "round2" /\ party'[i].rnd # "round2") =>
                  IF \E j \in Parties \ {i} : BadShareHeld(party'[i], i, j)
                  THEN /\ party'[i].rnd = "round3"
                       /\ ret'.op = "Update"
                       /\ ret'.party = i
                       /\ ~ret'.ok
                       /\ ret'.err.round = 3
                       /\ ret'.err.victim = i
                       /\ endCh' = endCh
                       /\ \A j \in Parties \ {i} :
                             BadShareHeld(party'[i], i, j) => j \in ret'.err.culprits
                       /\ \A j \in Parties \ {i} :
                             (\A j2 \in Parties \ {i, j} : KGPeerVerifies(party'[i], i, j2))
                                => ret'.err.culprits \subseteq {j}
                  ELSE party'[i].rnd \in {"round3", "done"}]_vars

\* a party was handed a share that is not the one its peer dealt, and its
\* round 3 stopped with that peer as the only culprit; nothing was saved
C19_Witness ==
    \E i \in Parties : \E j \in Parties \ {i} :
        /\ party[i].rnd = "round3"
        /\ BadShareHeld(party[i], i, j)
        /\ party[i].kgRound2Message1s[j].Share # Dealt(j, i)
        /\ ret.op = "Update"
        /\ ret.party = i
        /\ ret.err.culprits = {j}
        /\ party[i].data.Xi = -1
        /\ i \notin KGEnded

\* C20: ReConstruct of the shares that a dealer's Create made for k of the
\* parties returns the dealer's secret if and only if k >= threshold + 1
C20_ReconstructIffEnough ==
    ret.op = "ReConstruct" =>
        ((ret.ok /\ ret.secret = party[ret.party].ui)
            <=> Cardinality(ret.holders) >= party[ret.party].threshold + 1)

\* C21: ReConstruct of fewer than threshold + 1 shares, or of shares whose
\* ids are not pairwise distinct, fails and returns no secret value
C21_TooFewSharesRejected ==
    ret.op = "ReConstruct" =>
        ((Cardinality(ret.holders) < party[ret.party].threshold + 1
            \/ ~CheckIndexes([k \in 1 .. Len(SharesOf(ret.party, ret.holders)) |->
                                 SharesOf(ret.party, ret.holders)[k].ID]))
           => (~ret.ok /\ ret.secret = -1))

(* ----------------------- the VSS functions on their own --------------- *)

\* the longest list of ids handed to CheckIndexes
MaxIds == 3

\* the lists of ids of the tests: ids up to N + 1, so that N (0 modulo N) and
\* two ids that are equal modulo N occur
IdLists == UNION {[1 .. n -> 0 .. (N + 1)] : n \in 0 .. MaxIds}

\* the two Create calls whose commitments and shares are checked against each
\* other
Dealers == {0, 1}

\* a dealer before its Create
VssNone == [created |-> FALSE, threshold |-> 0, poly |-> <<>>, vs |-> <<>>, shares |-> <<>>]

\* what the last call returned, with its arguments: for Verify the dealer and
\* the position of the share, what was added to its value, and the dealer
\* whose commitments it was checked against
VssRet(op, dealer, k, delta, against, ids, ok) ==
    [op |-> op, dealer |-> dealer, k |-> k, delta |-> delta, against |-> against,
     ids |-> ids, ok |-> ok]

InitVss ==
    /\ build = "finalize.go"
    /\ m = <<>>
    /\ fullBytesLen = 0
    /\ party = [i \in Dealers |-> VssNone]
    /\ outCh = <<>>
    /\ endCh = <<>>
    /\ pending = {}
    /\ ret = VssRet("none", -1, 0, 0, -1, <<>>, TRUE)

VssCreated(i, threshold, poly, c) ==
    /\ party' = IF c.err THEN party
                ELSE [party EXCEPT ![i] = [created |-> TRUE, threshold |-> threshold,
                                           poly |-> poly, vs |-> c.vs, shares |-> c.shares]]
    /\ ret' = VssRet("Create", i, 0, 0, -1, Ks, ~c.err)

\* vs, shares, err := Create(ec, threshold, secret, ids, rand.Reader), for the
\* ids of the parties
VssCreate(i) ==
    /\ ~party[i].created
    /\ \E threshold \in 0 .. NParties : \E secret \in 1 .. MaxSample :
         \E coeffs \in [1 .. threshold -> 0 .. MaxSample] :
           \E c \in {Create(threshold, secret, Ks, coeffs)} :
               VssCreated(i, threshold, <<secret>> \o coeffs, c)
    /\ UNCHANGED <<build, m, fullBytesLen, outCh, endCh, pending>>

\* share k of dealer i with delta added to its value modulo N
VssShare(i, k, delta) ==
    [party[i].shares[k] EXCEPT !.Share = (party[i].shares[k].Share + delta) % N]

\* shares[k].Verify(ec, threshold, vs): a share of one Create call, as it was
\* returned or with its value changed, against the commitments of a call
VssVerify(i, k, delta, j) ==
    /\ party[i].created
    /\ party[j].created
    /\ k \in 1 .. Len(party[i].shares)
    /\ ret' = VssRet("Verify", i, k, delta, j, <<>>,
                     Verify(VssShare(i, k, delta), party[j].threshold, party[j].vs))
    /\ UNCHANGED <<build, m, fullBytesLen, party, outCh, endCh, pending>>

\* _, e := CheckIndexes(ec, indexes), the call of a test on its list
VssCheckIndexes(ids) ==
    /\ ret.op = "none"
    /\ ret' = VssRet("CheckIndexes", -1, 0, 0, -1, ids, CheckIndexes(ids))
    /\ UNCHANGED <<build, m, fullBytesLen, party, outCh, endCh, pending>>

NextVss ==
    \/ \E i \in Dealers : VssCreate(i)
    \/ \E i \in Dealers : \E k \in 1 .. NParties : \E delta \in Scalars : \E j \in Dealers :
          VssVerify(i, k, delta, j)
    \/ \E ids \in IdLists : VssCheckIndexes(ids)

SpecVss == InitVss /\ [][NextVss]_vars

(* ------------------------------ VSS properties ------------------------ *)

\* the share that the last Verify was given
VerifiedShare == VssShare(ret.dealer, ret.k, ret.delta)

\* the polynomial behind the commitments that the last Verify was given takes
\* the value of the share at the id of the share
AgreesAtId ==
    evaluatePolynomial(party[ret.against].poly, VerifiedShare.ID) = VerifiedShare.Share

\* C22 as stated: Verify accepts exactly when u * G is the sum of
\* (id^k mod N) * vs[k]; a share verifies against the commitments of its own
\* Create call, and a share whose value was changed modulo N, or that is
\* checked against the commitments of a different polynomial, is rejected
C22_VerifyRejectsOtherPolynomial ==
    (ret.op = "Verify" /\ party[ret.dealer].threshold = party[ret.against].threshold) =>
        /\ ret.ok <=> (ScalarBaseMult(VerifiedShare.Share)
                          = VerifySum(party[ret.against].vs, VerifiedShare.ID, 1))
        /\ (ret.against = ret.dealer /\ ret.delta = 0) => ret.ok
        /\ (ret.against = ret.dealer /\ ret.delta # 0) => ~ret.ok
        /\ (party[ret.against].poly # party[ret.dealer].poly /\ ret.delta = 0) => ~ret.ok

\* C22: Verify of a share of threshold t accepts exactly when u * G is the
\* sum of (id^k mod N) * vs[k]; a share verifies against the commitments of
\* its own Create call and is rejected by them once its value was changed
\* modulo N; against the commitments of another polynomial it is accepted
\* exactly when that polynomial takes the value of the share at its id
C22_VerifyExact ==
    (ret.op = "Verify" /\ party[ret.dealer].threshold = party[ret.against].threshold) =>
        /\ ret.ok <=> (ScalarBaseMult(VerifiedShare.Share)
                          = VerifySum(party[ret.against].vs, VerifiedShare.ID, 1))
        /\ (ret.against = ret.dealer /\ ret.delta = 0) => ret.ok
        /\ (ret.against = ret.dealer /\ ret.delta # 0) => ~ret.ok
        /\ ret.ok <=> AgreesAtId

\* a share that its own commitments accept was rejected by the commitments of
\* another polynomial of the same threshold
C22_Witness ==
    /\ ret.op = "Verify"
    /\ ~ret.ok
    /\ ret.delta = 0
    /\ ret.against # ret.dealer
    /\ party[ret.dealer].threshold = party[ret.against].threshold
    /\ party[ret.against].poly # party[ret.dealer].poly
    /\ Verify(VerifiedShare, party[ret.dealer].threshold, party[ret.dealer].vs)

\* the residues modulo N of the ids that the last CheckIndexes was given
Residues == {ret.ids[k] % N : k \in 1 .. Len(ret.ids)}

\* C23: CheckIndexes accepts a list of ids exactly when no id is 0 modulo N
\* and no two of them are equal modulo N; a list with a repeated id and a
\* list that contains N are rejected
C23_CheckIndexes ==
    ret.op = "CheckIndexes" =>
        /\ ret.ok <=> (0 \notin Residues /\ Cardinality(Residues) = Len(ret.ids))
        /\ (\E k1, k2 \in 1 .. Len(ret.ids) : k1 # k2 /\ ret.ids[k1] = ret.ids[k2]) => ~ret.ok
        /\ (\E k \in 1 .. Len(ret.ids) : ret.ids[k] = N) => ~ret.ok

\* a list of distinct ids was rejected because N is one of them
C23_Witness ==
    /\ ret.op = "CheckIndexes"
    /\ ~ret.ok
    /\ Len(ret.ids) = MaxIds
    /\ ret.ids[MaxIds] = N
    /\ Cardinality(Residues) = MaxIds

(* ------------------- a party built from given Parameters -------------- *)

\* tss.NewParameters(ec, ctx, partyID, partyCount, threshold) returns the
\* Parameters with the values as given; self is the index of partyID in the
\* peer context ctx of the NParties parties, -1 if it is not in it
NewParameters(self, partyCount, threshold) ==
    [set |-> TRUE, self |-> self, partyCount |-> partyCount, threshold |-> threshold]

\* before NewParameters
NoParameters == [set |-> FALSE, self |-> -1, partyCount |-> 0, threshold |-> 0]

\* what the last call returned
ParamsRet(op, err, panic) == [op |-> op, err |-> err, panic |-> panic]

InitParams ==
    /\ build = "finalize.go"
    /\ m = <<>>
    /\ fullBytesLen = 0
    /\ party = [params |-> NoParameters, built |-> FALSE, p |-> NewLocalParty]
    /\ outCh = <<>>
    /\ endCh = <<>>
    /\ pending = {}
    /\ ret = ParamsRet("none", NoErr, FALSE)

\* params := tss.NewParameters(..): one value is returned, no error
ParamsNew(self, partyCount, threshold) ==
    /\ ~party.params.set
    /\ party' = [party EXCEPT !.params = NewParameters(self, partyCount, threshold)]
    /\ ret' = ParamsRet("NewParameters", NoErr, FALSE)
    /\ UNCHANGED <<build, m, fullBytesLen, outCh, endCh, pending>>

\* P := NewLocalParty(params, out, end): one value is returned, no error
ParamsNewLocalParty ==
    /\ party.params.set
    /\ ~party.built
    /\ party' = [party EXCEPT !.built = TRUE]
    /\ ret' = ParamsRet("NewLocalParty", NoErr, FALSE)
    /\ UNCHANGED <<build, m, fullBytesLen, outCh, endCh, pending>>

\* round 1's Start() for the party of params: it reads neither the party
\* count nor the threshold, and stores its message in the slot of its own
\* index, which is outside the slice for a party that is not in the context
StartWith(p, params) ==
    IF params.self \notin Parties
    THEN Panicked(p)
    ELSE round1Start([p EXCEPT !.rnd = "round1"], params.self)

ParamsStarted(res) ==
    /\ party' = [party EXCEPT !.p = res.p]
    /\ outCh' = outCh \o res.out
    /\ ret' = ParamsRet("Start", res.err, res.panic)

\* err := P.Start()
ParamsStart ==
    /\ party.built
    /\ party.p.rnd = "nil"
    /\ \E res \in {StartWith(party.p, party.params)} : ParamsStarted(res)
    /\ UNCHANGED <<build, m, fullBytesLen, endCh, pending>>

NextParams ==
    \/ \E self \in -1 .. (NParties - 1) : \E partyCount \in 0 .. (NParties + 1) :
          \E threshold \in 0 .. (NParties + 1) : ParamsNew(self, partyCount, threshold)
    \/ ParamsNewLocalParty
    \/ ParamsStart

SpecParams == InitParams /\ [][NextParams]_vars

\* n >= 2, 1 <= t < n and self_id in the peer context
ValidParameters(params) ==
    /\ params.partyCount >= 2
    /\ 1 <= params.threshold
    /\ params.threshold < params.partyCount
    /\ params.self \in Parties

\* C24: with Parameters that violate n >= 2, 1 <= t < n or self_id in the
\* peer context, no round-1 message is emitted and the Start() of a party
\* that could be constructed from them returns an error
C24_InvalidParametersRejected ==
    (party.params.set /\ ~ValidParameters(party.params)) =>
        /\ outCh = <<>>
        /\ ret.op = "Start" => (IsErr(ret.err) /\ ~ret.panic)

(* ------------------- points of several curves (ECPoint) --------------- *)

\* the curves of the model: Baby Jubjub and ed25519 are in the curve
\* registry under their names, the third curve is not registered
Curves == {"bjj", "ed25519", "p256"}

Registry == {"bjj", "ed25519"}

\* tss.GetCurveName(curve): the name of a registered curve
GetCurveName(curve) == [name |-> curve, ok |-> curve \in Registry]

\* tss.GetCurveByName(name): the registered curve of a name
GetCurveByName(name) == [ec |-> name, ok |-> name \in Registry]

\* curve.Params().N: the curves have different orders
CurveN(curve) ==
    CASE curve = "bjj" -> N
      [] curve = "ed25519" -> Primes[OrderIdx + 1]
      [] OTHER -> Primes[1]

\* the coordinates of p * G on a curve, G its generator. The curves are over
\* different fields: apart from the neutral element (p = 0) of the two
\* Edwards curves no point of one curve is a point of another
CurveX(curve, p) ==
    CASE curve = "bjj" -> PointX(p)
      [] curve = "ed25519" -> 5 * p + 1
      [] OTHER -> 4 * p + 2

CurveY(curve, p) ==
    CASE curve = "bjj" -> PointY(p)
      [] curve = "ed25519" -> 7 * p + 3
      [] OTHER -> 3 * p + 1

\* curve.IsOnCurve(x, y)
CurveIsOnCurve(curve, x, y) ==
    \E p \in 0 .. (CurveN(curve) - 1) : CurveX(curve, p) = x /\ CurveY(curve, p) = y

\* isOnCurve(c, x, y); a nil *big.Int is -1
isOnCurve(c, x, y) ==
    IF x = -1 \/ y = -1 THEN FALSE ELSE CurveIsOnCurve(c, x, y)

\* &ECPoint{curve, [2]*big.Int{X, Y}}
NewECPointNoCurveCheck(curve, X, Y) == [err |-> FALSE, curve |-> curve, x |-> X, y |-> Y]

\* the nil point that comes with an error
NilECPoint == [err |-> TRUE, curve |-> "", x |-> -1, y |-> -1]

\* a NewECPoint that does not look at the curve
NewECPointUnchecked(curve, X, Y) == NewECPointNoCurveCheck(curve, X, Y)

\* crypto.NewECPoint(curve, X, Y)
NewECPointOn(curve, X, Y) ==
    IF ~isOnCurve(curve, X, Y) THEN NilECPoint
    ELSE NewECPointNoCurveCheck(curve, X, Y)

\* crypto.ScalarBaseMult(curve, k): k is reduced modulo the order of curve,
\* a is that multiple of the base point B8 of Baby Jubjub, and the call
\* panics when NewECPoint(curve, a.X, a.Y) returns an error
ScalarBaseMultOn(curve, k) ==
    LET kMod == k % CurveN(curve)
        aX == CurveX("bjj", kMod % CurveN("bjj"))
        aY == CurveY("bjj", kMod % CurveN("bjj"))
        pt == NewECPointOn(curve, aX, aY)
    IN  [panic |-> pt.err, p |-> pt]

\* UnFlattenECPoints(curve, in, noCurveCheck): an error for a list of odd
\* length, for a pair that NewECPoint rejects and for a nil coordinate
UnFlattenECPointsOn(curve, in, noCurveCheck) ==
    LET pts == [j \in 1 .. (Len(in) \div 2) |->
                   IF noCurveCheck
                   THEN NewECPointNoCurveCheck(curve, in[2 * j - 1], in[2 * j])
                   ELSE NewECPointOn(curve, in[2 * j - 1], in[2 * j])]
    IN  IF Len(in) % 2 # 0 THEN [err |-> TRUE, ps |-> <<>>]
        ELSE IF \E j \in 1 .. Len(pts) : pts[j].err \/ pts[j].x = -1 \/ pts[j].y = -1
        THEN [err |-> TRUE, ps |-> <<>>]
        ELSE [err |-> FALSE, ps |-> pts]

\* SignRound2Message.UnmarshalZKProof(ec): the point of the two byte strings
UnmarshalZKProofOn(ec, alphaX, alphaY) == NewECPointOn(ec, SetBytes(alphaX), SetBytes(alphaY))

\* (*big.Int).GobEncode(): nothing for nil, else a version and sign byte and
\* the bytes of the magnitude
IntGobEncode(x) == IF x = -1 THEN <<>> ELSE <<2>> \o BytesOf(x)

\* (*big.Int).GobDecode(buf): 0 for an empty buffer, an error (-1) for
\* another version
IntGobDecode(buf) ==
    IF buf = <<>> THEN 0
    ELSE IF buf[1] # 2 THEN -1
    ELSE SetBytes(Tail(buf))

\* p.GobEncode(): the length and the bytes of x, then those of y; the curve
\* is not written
GobEncode(p) ==
    <<Len(IntGobEncode(p.x))>> \o IntGobEncode(p.x)
        \o <<Len(IntGobEncode(p.y))>> \o IntGobEncode(p.y)

\* binary.Read of a length at pos and reader.Read of that many bytes: an
\* error at the end of the buffer and when fewer bytes are left
GobRead(buf, pos) ==
    IF pos > Len(buf) \/ pos + 1 > Len(buf) \/ pos + buf[pos] > Len(buf)
    THEN [err |-> TRUE, bytes |-> <<>>, next |-> pos]
    ELSE [err |-> FALSE, bytes |-> SubSeq(buf, pos + 1, pos + buf[pos]),
          next |-> pos + buf[pos] + 1]

\* p.GobDecode(buf): the curve of the point is tss.EC(), the default curve
\* of the process at the time of the call
GobDecode(buf, ec) ==
    LET x == GobRead(buf, 1)
        y == GobRead(buf, x.next)
        X == IntGobDecode(x.bytes)
        Y == IntGobDecode(y.bytes)
    IN  IF x.err THEN NilECPoint
        ELSE IF y.err THEN NilECPoint
        ELSE IF X = -1 \/ Y = -1 THEN NilECPoint
        ELSE IF ~isOnCurve(ec, X, Y) THEN NilECPoint
        ELSE NewECPointNoCurveCheck(ec, X, Y)

\* p.MarshalJSON(): the name of the curve and the coordinates; an error for
\* a curve that is not registered
MarshalJSON(p) ==
    IF ~GetCurveName(p.curve).ok THEN [err |-> TRUE, Curve |-> "", Coords |-> <<>>]
    ELSE [err |-> FALSE, Curve |-> GetCurveName(p.curve).name, Coords |-> <<p.x, p.y>>]

\* an UnmarshalJSON that always takes the default curve
UnmarshalJSONDefaultCurve(payload, ec) ==
    IF ~isOnCurve(ec, payload.Coords[1], payload.Coords[2]) THEN NilECPoint
    ELSE NewECPointNoCurveCheck(ec, payload.Coords[1], payload.Coords[2])

\* p.UnmarshalJSON(payload): the curve of the name, tss.EC() for a payload
\* without a name
UnmarshalJSON(payload, ec) ==
    LET named == payload.Curve # ""
        curve == IF named THEN GetCurveByName(payload.Curve).ec ELSE ec
    IN  IF named /\ ~GetCurveByName(payload.Curve).ok THEN NilECPoint
        ELSE IF ~isOnCurve(curve, payload.Coords[1], payload.Coords[2]) THEN NilECPoint
        ELSE NewECPointNoCurveCheck(curve, payload.Coords[1], payload.Coords[2])

\* the points 0 .. MaxPoint of every curve give the coordinates that are
\* handed to the functions
MaxPoint == 1

\* the longest list handed to UnFlattenECPoints
MaxFlat == 4

\* coordinates from outside: those of points of the curves, and nil
CoordPool ==
    {-1} \cup {CurveX(c, q) : c \in Curves, q \in 0 .. MaxPoint}
         \cup {CurveY(c, q) : c \in Curves, q \in 0 .. MaxPoint}

FlatLists == UNION {[1 .. n -> CoordPool] : n \in 0 .. MaxFlat}

\* no encoding at hand
NoPayload == [kind |-> "none", bytes |-> <<>>, Curve |-> "", Coords |-> <<>>]

GobPayload(bytes) == [NoPayload EXCEPT !.kind = "gob", !.bytes = bytes]

JSONPayload(name, coords) == [NoPayload EXCEPT !.kind = "json", !.Curve = name, !.Coords = coords]

\* payloads from outside: JSON with the name of a registered curve, of a
\* curve that is not registered, or without a name; Gob, whole or cut short
Payloads ==
    {JSONPayload(name, <<x, y>>) : name \in Curves \cup {""}, x \in CoordPool, y \in CoordPool}
      \cup {GobPayload(GobEncode(NewECPointNoCurveCheck("", x, y))) : x \in CoordPool, y \in CoordPool}
      \cup {GobPayload(SubSeq(GobEncode(NewECPointNoCurveCheck("", x, 0)), 1, 2)) : x \in CoordPool \ {-1}}

\* what the last call returned (an error, a panic, a point or a list of
\* points) and its arguments
ECRet(op, err, panic, p, ps, args) ==
    [op |-> op, err |-> err, panic |-> panic, p |-> p, ps |-> ps, args |-> args]

\* the state of the process: the default curve tss.EC(), the point and the
\* encoding at hand
ECState(ec, p, enc) == [ec |-> ec, p |-> p, enc |-> enc]

InitECPoint ==
    /\ build = "finalize.go"
    /\ m = <<>>
    /\ fullBytesLen = 0
    /\ \E ec \in Registry : party = ECState(ec, NilECPoint, NoPayload)
    /\ outCh = <<>>
    /\ endCh = <<>>
    /\ pending = {}
    /\ ret = ECRet("none", FALSE, FALSE, NilECPoint, <<>>, <<>>)

\* tss.SetCurve(curve)
ECSetCurve(curve) ==
    /\ curve # party.ec
    /\ party' = [party EXCEPT !.ec = curve]
    /\ ret' = ECRet("SetCurve", FALSE, FALSE, NilECPoint, <<>>, [curve |-> curve])
    /\ UNCHANGED <<build, m, fullBytesLen, outCh, endCh, pending>>

\* nothing is at hand: the process has at most set its default curve
ECIdle == party.p.err /\ party.enc.kind = "none" /\ ret.op \in {"none", "SetCurve"}

\* the effect of a call on values from outside
ECReturned(op, err, panic, pt, ps, args) ==
    /\ party' = ECState(party.ec, pt, NoPayload)
    /\ ret' = ECRet(op, err, panic, pt, ps, args)
    /\ UNCHANGED <<build, m, fullBytesLen, outCh, endCh, pending>>

\* p, err := crypto.NewECPoint(curve, X, Y)
ECNewECPoint(curve, X, Y) ==
    /\ ECIdle
    /\ \E pt \in {NewECPointOn(curve, X, Y)} :
           ECReturned("NewECPoint", pt.err, FALSE, pt, <<>>, [curve |-> curve, x |-> X, y |-> Y])

\* p := crypto.NewECPointNoCurveCheck(curve, X, Y)
ECNewECPointNoCurveCheck(curve, X, Y) ==
    /\ ECIdle
    /\ \E pt \in {NewECPointNoCurveCheck(curve, X, Y)} :
           ECReturned("NewECPointNoCurveCheck", FALSE, FALSE, pt, <<>>,
                      [curve |-> curve, x |-> X, y |-> Y])

\* p := crypto.ScalarBaseMult(curve, k)
ECScalarBaseMult(curve, k) ==
    /\ ECIdle
    /\ \E r \in {ScalarBaseMultOn(curve, k)} :
           ECReturned("ScalarBaseMult", FALSE, r.panic, r.p, <<>>, [curve |-> curve, k |-> k])

\* ps, err := crypto.UnFlattenECPoints(curve, in, noCurveCheck)
ECUnFlattenECPoints(curve, in, noCurveCheck) ==
    /\ ECIdle
    /\ \E r \in {UnFlattenECPointsOn(curve, in, noCurveCheck)} :
           ECReturned("UnFlattenECPoints", r.err, FALSE, NilECPoint, r.ps,
                      [curve |-> curve, in |-> in, noCurveCheck |-> noCurveCheck])

\* proof, err := msg.UnmarshalZKProof(ec) for a message with the bytes of X
\* and Y in ProofAlphaX and ProofAlphaY
ECUnmarshalZKProof(ec, X, Y) ==
    /\ ECIdle
    /\ \E pt \in {UnmarshalZKProofOn(ec, BytesOf(X), BytesOf(Y))} :
           ECReturned("UnmarshalZKProof", pt.err, FALSE, pt, <<>>, [curve |-> ec, x |-> X, y |-> Y])

\* bz, err := p.GobEncode() for the point at hand
ECGobEncode ==
    /\ ~party.p.err
    /\ party' = [party EXCEPT !.enc = GobPayload(GobEncode(party.p))]
    /\ ret' = ECRet("GobEncode", FALSE, FALSE, party.p, <<>>, <<>>)
    /\ UNCHANGED <<build, m, fullBytesLen, outCh, endCh, pending>>

\* bz, err := p.MarshalJSON() for the point at hand
ECMarshalJSON ==
    /\ ~party.p.err
    /\ \E r \in {MarshalJSON(party.p)} :
          /\ party' = [party EXCEPT !.enc = IF r.err THEN NoPayload
                                              ELSE JSONPayload(r.Curve, r.Coords)]
          /\ ret' = ECRet("MarshalJSON", r.err, FALSE, party.p, <<>>, <<>>)
    /\ UNCHANGED <<build, m, fullBytesLen, outCh, endCh, pending>>

\* a payload arrives from outside
ECReceive(payload) ==
    /\ ECIdle
    /\ party' = ECState(party.ec, NilECPoint, payload)
    /\ ret' = ECRet("Receive", FALSE, FALSE, NilECPoint, <<>>, <<>>)
    /\ UNCHANGED <<build, m, fullBytesLen, outCh, endCh, pending>>

\* err := p.GobDecode(bz) of the encoding at hand
ECGobDecode ==
    /\ party.enc.kind = "gob"
    /\ \E pt \in {GobDecode(party.enc.bytes, party.ec)} :
          ret' = ECRet("GobDecode", pt.err, FALSE, pt, <<>>, <<>>)
    /\ UNCHANGED <<build, m, fullBytesLen, party, outCh, endCh, pending>>

\* err := p.UnmarshalJSON(bz) of the encoding at hand
ECUnmarshalJSON ==
    /\ party.enc.kind = "json"
    /\ \E pt \in {UnmarshalJSON(party.enc, party.ec)} :
          ret' = ECRet("UnmarshalJSON", pt.err, FALSE, pt, <<>>, <<>>)
    /\ UNCHANGED <<build, m, fullBytesLen, party, outCh, endCh, pending>>

NextECPoint ==
    \/ \E curve \in Registry : ECSetCurve(curve)
    \/ ECIdle /\ \E curve \in Curves : \E X \in CoordPool : \E Y \in CoordPool :
          ECNewECPoint(curve, X, Y)
    \/ ECIdle /\ \E curve \in Curves : \E X \in CoordPool : \E Y \in CoordPool :
          ECNewECPointNoCurveCheck(curve, X, Y)
    \/ ECIdle /\ \E curve \in Registry : \E k \in 0 .. (CurveN(curve) + 1) :
          ECScalarBaseMult(curve, k)
    \/ ECIdle /\ \E curve \in Curves : \E in \in FlatLists : \E noCurveCheck \in BOOLEAN :
          ECUnFlattenECPoints(curve, in, noCurveCheck)
    \/ ECIdle /\ \E ec \in Curves : \E X \in CoordPool \ {-1} : \E Y \in CoordPool \ {-1} :
          ECUnmarshalZKProof(ec, X, Y)
    \/ ECGobEncode
    \/ ECMarshalJSON
    \/ ECIdle /\ \E payload \in Payloads : ECReceive(payload)
    \/ ECGobDecode
    \/ ECUnmarshalJSON

SpecECPoint == InitECPoint /\ [][NextECPoint]_vars

(* ----------------------------- ECPoint properties --------------------- *)

\* a point that was returned without an error has coordinates on its curve
LiesOnItsCurve(pt) ==
    /\ ~pt.err
    /\ pt.x # -1
    /\ pt.y # -1
    /\ CurveIsOnCurve(pt.curve, pt.x, pt.y)

\* coordinates that are nil or not on the curve
BadCoordinates(curve, x, y) == x = -1 \/ y = -1 \/ ~CurveIsOnCurve(curve, x, y)

\* the curve that UnmarshalJSON takes for the payload at hand
PayloadCurve == IF party.enc.Curve # "" THEN party.enc.Curve ELSE party.ec

C26_ScalarBaseMultOfCurve ==
    ret.op = "ScalarBaseMult" =>
        /\ ~ret.panic
        /\ ret.p = NewECPointNoCurveCheck(ret.args.curve,
                       CurveX(ret.args.curve, ret.args.k % CurveN(ret.args.curve)),
                       CurveY(ret.args.curve, ret.args.k % CurveN(ret.args.curve)))

\* the encoding at hand is the encoding of the point at hand, an on-curve
\* point of a registered curve
EncodedPoint ==
    /\ party.enc.kind # "none"
    /\ LiesOnItsCurve(party.p)
    /\ party.p.curve \in Registry

\* C27: decoding the JSON or the Gob encoding of an on-curve point of a
\* registered curve gives a point with the same coordinates and the same
\* curve, whatever the default curve is when it is decoded
C27_RoundTrip ==
    (ret.op \in {"GobDecode", "UnmarshalJSON"} /\ EncodedPoint) =>
        (~ret.err /\ ret.p = party.p)

\* C28: UnmarshalJSON returns an error for a payload that names a curve that
\* is not in the registry and for coordinates that are not on the curve of
\* the payload (the default curve for a payload without a name); MarshalJSON
\* returns an error for a point whose curve is not registered
C28_JSONErrors ==
    /\ ret.op = "UnmarshalJSON" =>
          /\ (party.enc.Curve # "" /\ party.enc.Curve \notin Registry) => ret.err
          /\ BadCoordinates(PayloadCurve, party.enc.Coords[1], party.enc.Coords[2]) => ret.err
          /\ ret.err => ret.p = NilECPoint
    /\ ret.op = "MarshalJSON" =>
          ((party.p.curve \notin Registry) => (ret.err /\ party.enc = NoPayload))

\* a payload with the name of a curve that is not registered and the
\* coordinates of a point of that curve was rejected
C28_Witness ==
    /\ ret.op = "UnmarshalJSON"
    /\ ret.err
    /\ party.enc.Curve = "p256"
    /\ ~BadCoordinates("p256", party.enc.Coords[1], party.enc.Coords[2])

(* ------------------------- the end of a signing party ----------------- *)

\* the Update() of party i returned an error: the party aborts
AbortedWithError(i) == ret.op = "Update" /\ ret.party = i /\ IsErr(ret.err)

\* C29: once a party has sent its output on the end channel or has returned
\* an error, its temp data holds neither its partial signature s_i nor its
\* decommitment
C29_SecretsZeroized ==
    \A i \in Parties :
        (Ended(i) \/ AbortedWithError(i)) =>
            (party[i].si = -1 /\ party[i].deCommit = <<>>)

(* ------------------ a host that drops the channels -------------------- *)

\* the host's side of the out channel: its capacity, and whether the host
\* still receives from it ("open"), has closed it, or has stopped receiving
Host(state, cap) == [state |-> state, cap |-> cap]

\* what the last call on a party did: the error it returned, whether it
\* tried to send on out, and whether the send panicked or never returned
DropRet(op, i, err, send, panic, blocked) ==
    [op |-> op, party |-> i, err |-> err, send |-> send, panic |-> panic,
     blocked |-> blocked]

InitDrop ==
    /\ build = "finalize.go"
    /\ m = <<>>
    /\ fullBytesLen = 0
    /\ party = [i \in Parties |-> NewLocalParty]
    /\ outCh = <<>>
    /\ endCh = <<>>
    /\ \E cap \in 1 .. NParties : pending = Host("open", cap)
    /\ ret = DropRet("none", -1, NoErr, FALSE, FALSE, FALSE)

\* the statement round.out <- msg of a Start(): a send on a closed channel
\* panics, a send on a full channel waits for a receiver, any other send
\* puts the message in the buffer; what follows the send runs only then
SendOnOut(i, res) ==
    IF res.out = <<>>
    THEN /\ party' = [party EXCEPT ![i] = res.p]
         /\ outCh' = outCh
         /\ ret' = DropRet("Start", i, res.err, FALSE, FALSE, FALSE)
    ELSE IF pending.state = "closed"
    THEN /\ party' = [party EXCEPT ![i] = [res.p EXCEPT !.rnd = "panicked"]]
         /\ outCh' = outCh
         /\ ret' = DropRet("Start", i, NoErr, TRUE, TRUE, FALSE)
    ELSE IF Len(outCh) + Len(res.out) > pending.cap
    THEN /\ pending.state = "unread"
         /\ party' = [party EXCEPT ![i] = [res.p EXCEPT !.rnd = "blocked"]]
         /\ outCh' = outCh
         /\ ret' = DropRet("Start", i, NoErr, TRUE, FALSE, TRUE)
    ELSE /\ party' = [party EXCEPT ![i] = res.p]
         /\ outCh' = outCh \o res.out
         /\ ret' = DropRet("Start", i, res.err, TRUE, FALSE, FALSE)

\* go P.Start()
DropStart(i) ==
    /\ party[i].rnd = "nil"
    /\ \E res \in {round1Start([party[i] EXCEPT !.rnd = "round1"], i)} : SendOnOut(i, res)
    /\ UNCHANGED <<build, m, fullBytesLen, endCh, pending>>

\* Start() of round 1 is called once more
DropStartAgain(i) ==
    /\ party[i].rnd = "round1"
    /\ \E res \in {round1Start(party[i], i)} : SendOnOut(i, res)
    /\ UNCHANGED <<build, m, fullBytesLen, endCh, pending>>

\* case msg := <-outCh
DropReceive ==
    /\ pending.state = "open"
    /\ outCh # <<>>
    /\ outCh' = Tail(outCh)
    /\ ret' = DropRet("Receive", -1, NoErr, FALSE, FALSE, FALSE)
    /\ UNCHANGED <<build, m, fullBytesLen, party, endCh, pending>>

\* the host drops the channels: it closes them, or it no longer receives
DropChannels(how) ==
    /\ pending.state = "open"
    /\ pending' = [pending EXCEPT !.state = how]
    /\ ret' = DropRet("Drop", -1, NoErr, FALSE, FALSE, FALSE)
    /\ UNCHANGED <<build, m, fullBytesLen, party, outCh, endCh>>

NextDrop ==
    \/ \E i \in Parties : DropStart(i)
    \/ \E i \in Parties : DropStartAgain(i)
    \/ DropReceive
    \/ \E how \in {"closed", "unread"} : DropChannels(how)

SpecDrop == InitDrop /\ [][NextDrop]_vars

\* C30: once the host has dropped the channels, a Start() that sends on out
\* returns a cancellation error: the send neither panics nor waits forever
C30_SendAfterDrop ==
    (pending.state # "open" /\ ret.op = "Start" /\ ret.send) =>
        (IsErr(ret.err) /\ ~ret.panic /\ ~ret.blocked)

(* -------------------- rsa: the SignShare wire format ------------------ *)

\* math.MaxUint16
MaxUint16 == 65535

\* math.MaxInt16
MaxInt16 == 32767

\* a big.Int of the rsa package: its sign and the big-endian bytes of its
\* magnitude without leading zeros (Xi has the size of an RSA modulus and
\* more; nil is the Xi of SignShare{})
BigInt(neg, abs) == [neg |-> neg, abs |-> abs]

NilBigInt == BigInt(FALSE, <<-1>>)

\* s.Xi.Bytes(): the magnitude, the sign is not written
BigBytes(x) == x.abs

RECURSIVE StripZeros(_)
StripZeros(bs) == IF bs # <<>> /\ bs[1] = 0 THEN StripZeros(Tail(bs)) ELSE bs

\* xi.SetBytes(bytes): a non-negative number, leading zero bytes dropped
BigSetBytes(bs) == BigInt(FALSE, StripZeros(bs))

\* share.Xi.Cmp(share2.Xi) == 0
BigEqual(x, y) == x.neg = y.neg /\ x.abs = y.abs

\* binary.BigEndian.PutUint16 of a value that fits
PutUint16(v) == <<v \div 256, v % 256>>

\* binary.BigEndian.Uint16
Uint16(bs) == bs[1] * 256 + bs[2]

SignShare(xi, index, players, threshold) ==
    [Xi |-> xi, Index |-> index, Players |-> players, Threshold |-> threshold]

\* SignShare{}
ZeroSignShare == SignShare(NilBigInt, 0, 0, 0)

\* MarshalBinary that writes the empty byte string of Xi = 0 as it is
MarshalBinaryEmptyXi(s) ==
    IF s.Players > MaxUint16 THEN [out |-> <<>>, err |-> "Players is too big to fit in a uint16"]
    ELSE IF s.Threshold > MaxUint16 THEN [out |-> <<>>, err |-> "Threshold is too big to fit in a uint16"]
    ELSE IF s.Index > MaxUint16 THEN [out |-> <<>>, err |-> "Index is too big to fit in a uint16"]
    ELSE IF Len(BigBytes(s.Xi)) > MaxInt16 THEN [out |-> <<>>, err |-> "xiBytes is too big to fit it's length in a uint16"]
    ELSE [out |-> PutUint16(s.Players) \o PutUint16(s.Threshold) \o PutUint16(s.Index)
                    \o PutUint16(Len(BigBytes(s.Xi))) \o BigBytes(s.Xi),
          err |-> ""]

\* (s *SignShare) MarshalBinary:
\* | Players: uint16 | Threshold: uint16 | Index: uint16 | xiLen: uint16 | xi |
MarshalBinary(s) ==
    IF s.Players > MaxUint16 THEN [out |-> <<>>, err |-> "Players is too big to fit in a uint16"]
    ELSE IF s.Threshold > MaxUint16 THEN [out |-> <<>>, err |-> "Threshold is too big to fit in a uint16"]
    ELSE IF s.Index > MaxUint16 THEN [out |-> <<>>, err |-> "Index is too big to fit in a uint16"]
    ELSE IF Len(BigBytes(s.Xi)) > MaxInt16 THEN [out |-> <<>>, err |-> "xiBytes is too big to fit it's length in a uint16"]
    ELSE LET xiBytes == IF Len(BigBytes(s.Xi)) = 0 THEN <<0>> ELSE BigBytes(s.Xi)
             xiLen == Len(xiBytes)
         IN  [out |-> PutUint16(s.Players) \o PutUint16(s.Threshold) \o PutUint16(s.Index)
                        \o PutUint16(xiLen % (MaxUint16 + 1)) \o xiBytes,
              err |-> ""]

\* (s *SignShare) UnmarshalBinary: the share after the call, the error, and
\* whether the slice data[8:8+xiLen] panicked (8+xiLen is a uint16 sum)
UnmarshalBinary(s, data) ==
    IF Len(data) < 8
    THEN [s |-> s, err |-> "data length was too short for reading Players, Threshold, Index, and xiLen", panic |-> FALSE]
    ELSE LET players == Uint16(SubSeq(data, 1, 2))
             threshold == Uint16(SubSeq(data, 3, 4))
             index == Uint16(SubSeq(data, 5, 6))
             xiLen == Uint16(SubSeq(data, 7, 8))
             high == (8 + xiLen) % (MaxUint16 + 1)
         IN  IF xiLen = 0
             THEN [s |-> s, err |-> "xi is a required field but xiLen was 0", panic |-> FALSE]
             ELSE IF (Len(data) - 8) % (MaxUint16 + 1) < xiLen
             THEN [s |-> s, err |-> "data length was too short for reading xi", panic |-> FALSE]
             ELSE IF high < 8 \/ high > Len(data)
             THEN [s |-> s, err |-> "", panic |-> TRUE]
             ELSE [s |-> SignShare(BigSetBytes(SubSeq(data, 9, high)), index, players, threshold),
                   err |-> "", panic |-> FALSE]

\* longest magnitude, in bytes, of the small Xi the model enumerates
MaxXiBytes == 2

ByteSamples == {0, 1, 255}

\* byte strings of at most k bytes
BytesUpTo(k) == UNION {[1 .. n -> ByteSamples] : n \in 0 .. k}

\* field values around the uint16 limit
Uint16Samples == {0, 30, MaxUint16, MaxUint16 + 1}

\* Xi: every magnitude of at most MaxXiBytes bytes, a negative number, and
\* the magnitudes of MaxInt16 and of MaxInt16 + 1 bytes
XiSamples ==
    {BigInt(FALSE, bs) : bs \in {b \in BytesUpTo(MaxXiBytes) : b = StripZeros(b)}}
        \cup {BigInt(TRUE, <<10>>)}
        \cup {BigInt(FALSE, [k \in 1 .. MaxInt16 |-> 255]),
              BigInt(FALSE, [k \in 1 .. (MaxInt16 + 1) |-> IF k = 1 THEN 1 ELSE 0])}

SignShareSamples ==
    {SignShare(xi, index, players, threshold) :
        xi \in XiSamples, index \in Uint16Samples,
        players \in {16, MaxUint16 + 1}, threshold \in {18, MaxUint16 + 1}}

HeaderSamples ==
    {PutUint16(players) \o PutUint16(18) \o PutUint16(index) \o PutUint16(xiLen) :
        players \in {0, 16}, index \in {0, 30}, xiLen \in 0 .. (MaxXiBytes + 1)}

\* input of UnmarshalBinary that no MarshalBinary wrote: headers cut short,
\* headers followed by too few, enough and too many bytes, and two inputs
\* longer than a uint16 can count
DataSamples ==
    {SubSeq(h, 1, k) : h \in HeaderSamples, k \in 0 .. 7}
        \cup {h \o tail : h \in HeaderSamples, tail \in BytesUpTo(MaxXiBytes + 1)}
        \cup {PutUint16(16) \o PutUint16(18) \o PutUint16(30) \o PutUint16(1)
                 \o [k \in 1 .. (MaxUint16 + 1) |-> 7],
              PutUint16(16) \o PutUint16(18) \o PutUint16(30) \o PutUint16(MaxUint16 - 7)
                 \o [k \in 1 .. (MaxUint16 - 7) |-> 7]}

\* what the last call did: the share it was called on or with, the bytes
\* written or read, the error, the share read, and where the bytes came from
SSRet(op, share, data, err, share2, panic, from) ==
    [op |-> op, share |-> share, data |-> data, err |-> err, share2 |-> share2,
     panic |-> panic, from |-> from]

InitSignShare ==
    /\ build = "finalize.go"
    /\ m = <<>>
    /\ fullBytesLen = 0
    /\ party = <<>>
    /\ outCh = <<>>
    /\ endCh = <<>>
    /\ pending = {}
    /\ ret = SSRet("none", ZeroSignShare, <<>>, "", ZeroSignShare, FALSE, "none")

\* no bytes wait to be read
SSIdle == ret.op \in {"none", "UnmarshalBinary"} \/ (ret.op = "MarshalBinary" /\ ret.err # "")

\* marshall, err := share.MarshalBinary()
SSMarshalBinary(s) ==
    /\ ret' = SSRet("MarshalBinary", s, MarshalBinary(s).out, MarshalBinary(s).err,
                    ZeroSignShare, FALSE, "MarshalBinary")
    /\ UNCHANGED <<build, m, fullBytesLen, party, outCh, endCh, pending>>

\* input []byte of unmarshalSignShareTest
SSReceive(data) ==
    /\ ret' = SSRet("Receive", ZeroSignShare, data, "", ZeroSignShare, FALSE, "Receive")
    /\ UNCHANGED <<build, m, fullBytesLen, party, outCh, endCh, pending>>

\* share2 := SignShare{}; err = share2.UnmarshalBinary(marshall)
SSUnmarshalBinary ==
    /\ ret.op \in {"MarshalBinary", "Receive"}
    /\ ret.err = ""
    /\ LET res == UnmarshalBinary(ZeroSignShare, ret.data)
       IN  ret' = SSRet("UnmarshalBinary", ret.share, ret.data, res.err, res.s, res.panic, ret.op)
    /\ UNCHANGED <<build, m, fullBytesLen, party, outCh, endCh, pending>>

NextSignShare ==
    \/ SSIdle /\ \E s \in SignShareSamples : SSMarshalBinary(s)
    \/ SSIdle /\ \E data \in DataSamples : SSReceive(data)
    \/ SSUnmarshalBinary

SpecSignShare == InitSignShare /\ [][NextSignShare]_vars

\* the share is one MarshalBinary writes: the three fields fit in a uint16
\* and Xi is not negative
Marshallable(s) ==
    /\ s.Players <= MaxUint16
    /\ s.Threshold <= MaxUint16
    /\ s.Index <= MaxUint16
    /\ ~s.Xi.neg

\* the xiLen field of a header
XiLenOf(data) == Uint16(SubSeq(data, 7, 8))

\* the three inputs UnmarshalBinary has to refuse
Malformed(data) ==
    \/ Len(data) < 8
    \/ XiLenOf(data) = 0
    \/ Len(data) - 8 < XiLenOf(data)

OwnRound2Message(i) == party[i].signRound2Messages[i]

\* C32: every round-2 message an honest party builds with
\* NewSignRound2Message from the decommitment it stored in round 1 passes
\* ValidateBasic, and no Update() of a run of honest parties returns a
\* ValidateBasic error
C32_HonestRound2Valid ==
    /\ \A i \in Parties :
          (OwnRound2Message(i) # NilMsg
             /\ OwnRound2Message(i) = NewSignRound2Message(i, party[i].deCommit,
                                          SchnorrProve(Nonce(i), ProofNonce(i))))
            => ValidateBasic(OwnRound2Message(i))
    /\ ~ValidateBasicFailed(ret)

\* C33: the decommitment a round-2 message carries is the sender's:
\* UnmarshalDeCommitment of NewSignRound2Message(from, D, proof) returns D
C33_DeCommitmentRoundTrip ==
    \A i \in Parties :
        OwnRound2Message(i) # NilMsg =>
            UnmarshalDeCommitment(NewSignRound2Message(i, party[i].deCommit,
                                      SchnorrProve(Nonce(i), ProofNonce(i))))
                = party[i].deCommit

(* --------------------- round 1: what Start() leaves -------------------- *)

\* the round-1 message P_i has built and stored in its own slot
OwnRound1Message(i) == party[i].signRound1Messages[i]

\* C34: the decommitment round 1 stores is D_i = [r] ++ [R_i.x, R_i.y] with
\* a blinding value r, the commitment it broadcasts is C_i = H(D_i), and
\* verify(C_i, D_i) holds
C34_BlindedCommitment ==
    \A i \in Parties :
        OwnRound1Message(i) # NilMsg =>
            /\ Len(party[i].deCommit) = 3
            /\ party[i].deCommit[1] >= 0
            /\ party[i].deCommit[2] = PointX(ScalarBaseMult(Nonce(i)))
            /\ party[i].deCommit[3] = PointY(ScalarBaseMult(Nonce(i)))
            /\ UnmarshalCommitment(OwnRound1Message(i)) = CommitHash(party[i].deCommit)
            /\ CommitVerify(UnmarshalCommitment(OwnRound1Message(i)), party[i].deCommit)

\* C35: after Start() of round 1 has returned without error the temp data
\* holds the nonce r_i, the point R_i = r_i * G and the decommitment that
\* opens the broadcast commitment, and the s_i of round 3 is computed from
\* that r_i
C35_TempAfterRound1 ==
    \A i \in Parties :
        OwnRound1Message(i) # NilMsg =>
            /\ party[i].ri = Nonce(i)
            /\ party[i].pointRi = ScalarBaseMult(party[i].ri)
            /\ CommitVerify(UnmarshalCommitment(OwnRound1Message(i)), party[i].deCommit)
            /\ party[i].si # -1 =>
                  party[i].si = (party[i].ri
                                   + SigHash(party[i].r, EDDSAPub, MessageBytes) * WiXi(i)) % N

(* ---------------- the rounds, driven one call at a time ---------------- *)

\* the number of the round a party is in
NumberOf(rnd) ==
    CASE rnd = "round1" -> 1
      [] rnd = "round2" -> 2
      [] rnd = "round3" -> 3
      [] OTHER -> 4

\* what the last call on a round returned: the bool of Update(), the error,
\* and how many values the call sent on out and on end
RoundsRet(op, i, ok, err, sent, ended, panic) ==
    [op |-> op, party |-> i, ok |-> ok, err |-> err, sent |-> sent,
     ended |-> ended, panic |-> panic]

InitRounds ==
    /\ build \in Builds
    /\ \E in \in TestInputs : m = in.m /\ fullBytesLen = in.fullBytesLen
    /\ party = [i \in Parties |-> NewLocalParty]
    /\ outCh = <<>>
    /\ endCh = <<>>
    /\ pending = {}
    /\ ret = RoundsRet("none", -1, FALSE, NoErr, 0, 0, FALSE)

\* round.Start() returned res
RoundsStarted(i, res) ==
    /\ party' = [party EXCEPT ![i] = res.p]
    /\ outCh' = outCh \o res.out
    /\ endCh' = endCh \o [k \in 1 .. Len(res.end) |-> [from |-> i, data |-> res.end[k]]]
    /\ ret' = RoundsRet("Start", i, FALSE, res.err, Len(res.out), Len(res.end), res.panic)
    /\ UNCHANGED <<build, m, fullBytesLen, pending>>

\* newRound1(..).Start()
RoundsFirstStart(i) ==
    /\ party[i].rnd = "nil"
    /\ RoundsStarted(i, round1Start([party[i] EXCEPT !.rnd = "round1"], i))

\* Start() of the round the party is in, started or not
RoundsStart(i) ==
    /\ HasRound(party[i])
    /\ RoundsStarted(i, RoundStart(party[i], i))

\* a message of a peer is put in its slot of the temp data
RoundsStore(i, msg) ==
    /\ HasRound(party[i])
    /\ SlotOf(party[i], msg) = NilMsg
    /\ party' = [party EXCEPT ![i] = StoreMessage(party[i], msg)]
    /\ ret' = RoundsRet("Store", i, FALSE, NoErr, 0, 0, FALSE)
    /\ UNCHANGED <<build, m, fullBytesLen, outCh, endCh, pending>>

\* round.Update()
RoundsUpdate(i) ==
    /\ HasRound(party[i])
    /\ party' = [party EXCEPT ![i] = RoundUpdate(party[i]).p]
    /\ ret' = RoundsRet("Update", i, RoundUpdate(party[i]).ret, RoundUpdate(party[i]).err,
                        0, 0, FALSE)
    /\ UNCHANGED <<build, m, fullBytesLen, outCh, endCh, pending>>

\* if round.CanProceed() { round = round.NextRound() }
RoundsNextRound(i) ==
    /\ HasRound(party[i])
    /\ CanProceed(party[i])
    /\ party' = [party EXCEPT ![i] = NextRound(party[i])]
    /\ ret' = RoundsRet("NextRound", i, FALSE, NoErr, 0, 0, FALSE)
    /\ UNCHANGED <<build, m, fullBytesLen, outCh, endCh, pending>>

NextRounds ==
    \/ \E i \in Victims : RoundsFirstStart(i)
    \/ \E i \in Victims : RoundsStart(i)
    \/ \E i \in Victims : \E msg \in Unrouted(i) : RoundsStore(i, msg)
    \/ \E i \in Victims : RoundsUpdate(i)
    \/ \E i \in Victims : RoundsNextRound(i)

SpecRounds == InitRounds /\ [][NextRounds]_vars

\* C36: a party's round number takes the values 1, 2, 3, 4 in that order: a
\* call never lowers it and never adds more than one, a started round has
\* its own number and a round NextRound() has returned still has its
\* predecessor's; NextRound() of rounds 1 to 3 returns the successor on the
\* same base (nothing but started changes), NextRound() of finalization
\* returns nil, and a party that has no round any more starts none again
C36_RoundSequence ==
    /\ [](\A i \in Parties :
            /\ party[i].number \in 1 .. 4
            /\ (HasRound(party[i]) /\ party[i].started)
                  => party[i].number = NumberOf(party[i].rnd)
            /\ (HasRound(party[i]) /\ ~party[i].started /\ party[i].rnd # "round1")
                  => party[i].number = NumberOf(party[i].rnd) - 1
            /\ party[i].rnd = "done" => party[i].number = 4)
    /\ [][\A i \in Parties :
            /\ party'[i].number \in {party[i].number, party[i].number + 1}
            /\ party'[i].rnd # party[i].rnd =>
                  \/ party[i].rnd = "nil" /\ party'[i].rnd = "round1"
                  \/ /\ party[i].rnd \in {"round1", "round2", "round3"}
                     /\ HasRound(party'[i])
                     /\ NumberOf(party'[i].rnd) = NumberOf(party[i].rnd) + 1
                     /\ party'[i] = [party[i] EXCEPT !.started = FALSE,
                                                     !.rnd = party'[i].rnd]
                  \/ /\ party[i].rnd = "finalization"
                     /\ party[i].started
                     /\ party'[i] = [party[i] EXCEPT !.rnd = "done"]
            /\ party[i].rnd = "done" => party'[i] = party[i]]_vars

\* a party has gone through the four rounds and has no round any more
C36_Witness ==
    \E i \in Parties :
        /\ party[i].rnd = "done"
        /\ party[i].number = 4
        /\ ret.op = "NextRound" /\ ret.party = i

\* the values P_i has sent on the end channel
EndsOf(i) == {k \in 1 .. Len(endCh) : endCh[k].from = i}

\* finalization's Start() has run
FinalizationStarted(p) == p.rnd \in {"finalization", "done"} /\ p.started

\* C37: a party sends at most one value on the end channel: once
\* finalization has been started CanAccept is false for every message,
\* Update() returns (false, nil) and changes nothing, and no later call (a
\* Start(), an Update(), a message put in a slot, NextRound()) sends on end
\* again or changes the SignatureData that was sent
C37_AtMostOneEnd ==
    /\ [](\A i \in Parties : Cardinality(EndsOf(i)) <= 1)
    /\ [](\A i \in Parties :
            (party[i].rnd = "finalization" /\ party[i].started) =>
                /\ \A msg \in Unrouted(i) : ~finalizationCanAccept(msg)
                /\ RoundUpdate(party[i]) = [p |-> party[i], ret |-> FALSE, err |-> NoErr])
    /\ [][\A i \in Parties :
            FinalizationStarted(party[i]) =>
                /\ endCh' = endCh
                /\ party'[i].data = party[i].data
                /\ ret'.party = i => ret'.ended = 0]_vars

\* a party that has sent its signature on end was started once more: the
\* call returned an error and sent nothing
C37_Witness ==
    \E i \in Parties :
        /\ Cardinality(EndsOf(i)) = 1
        /\ party[i].rnd = "finalization"
        /\ ret.op = "Start" /\ ret.party = i
        /\ IsErr(ret.err)
        /\ ret.ended = 0

(* ------------------ finalization of a long message --------------------- *)

\* the longest message, in bytes, the model signs
MaxMsgLen == 33

\* messages of PaddedMsgLen bytes and more, handed over without a length and
\* with their own length
LongInputs ==
    UNION {{[m |-> [k \in 1 .. n |-> 1], fullBytesLen |-> f] : f \in {0, n}} :
              n \in PaddedMsgLen .. MaxMsgLen}

InitLongMessage ==
    /\ build \in Builds
    /\ \E in \in LongInputs : m = in.m /\ fullBytesLen = in.fullBytesLen
    /\ party = [i \in Parties |-> NewLocalParty]
    /\ outCh = <<>>
    /\ endCh = <<>>
    /\ pending = {}
    /\ ret = RoundsRet("none", -1, FALSE, NoErr, 0, 0, FALSE)

SpecLongMessage == InitLongMessage /\ [][NextRounds]_vars

\* C38: finalization handles a message of any length: for a message longer
\* than 32 bytes Start() completes or returns an error, it does not crash
C38_LongMessageHandled ==
    Len(m) > PaddedMsgLen =>
        /\ ~ret.panic
        /\ \A i \in Parties : party[i].rnd # "panicked"

\* ---------------------------------------------------------------------
\* rsa: the Lagrange coefficient of CombineSignShares (signShare.go)
\* ---------------------------------------------------------------------

\* players l of the share sets and the longest slice of shares
MaxPlayers == 4
MaxShares == 3

\* CalculateDelta: delta.MulRange(1, l), that is l!
RECURSIVE CalculateDelta(_)
CalculateDelta(l) == IF l <= 1 THEN 1 ELSE l * CalculateDelta(l - 1)

\* big.Int Div: Euclidean division, the remainder is never negative (y # 0)
BigDiv(x, y) ==
    IF y > 0 THEN x \div y
    ELSE LET q == x \div (0 - y) IN 0 - q

\* the loop of ComputeLambda over the slice S (kept as the Index of each
\* share, the one field the function reads) from position k on.  At these
\* bounds the int64 products stay below 2^31, so num *= and den *= are exact.
RECURSIVE LambdaLoop(_, _, _, _, _)
LambdaLoop(S, i, j, k, st) ==
    IF k > Len(S) THEN st
    ELSE LET jprime == S[k]
         IN  IF jprime = j
             THEN LambdaLoop(S, i, j, k + 1, [st EXCEPT !.foundj = TRUE])
             ELSE IF jprime = i
             THEN [st EXCEPT !.foundi = FALSE]
             ELSE LambdaLoop(S, i, j, k + 1,
                             [st EXCEPT !.num = st.num * (i - jprime),
                                        !.den = st.den * (j - jprime)])

\* ComputeLambda(delta, S, i, j): the value and the error it returns
\* (lambda is unused when err is set)
ComputeLambda(delta, S, i, j) ==
    IF i = j
    THEN [lambda |-> 0, err |-> "i and j can't be equal by precondition"]
    ELSE LET st == LambdaLoop(S, i, j, 1,
                              [num |-> 1, den |-> 1, foundi |-> FALSE, foundj |-> FALSE])
             lambda == delta * BigDiv(st.num, st.den)
         IN  IF st.foundi THEN [lambda |-> 0, err |-> "i should not be in S"]
             ELSE IF ~st.foundj THEN [lambda |-> 0, err |-> "j should be in S"]
             ELSE [lambda |-> lambda, err |-> ""]

\* the slices of shares: every order of at most MaxShares indices in
\* 1..MaxPlayers, repeated ones included
ShareSlices == UNION {[1 .. n -> 1 .. MaxPlayers] : n \in 1 .. MaxShares}

LambdaRet(op, S, i, j, res) ==
    [op |-> op, S |-> S, i |-> i, j |-> j, lambda |-> res.lambda, err |-> res.err]

InitLambda ==
    /\ build = "finalize.go"
    /\ m = <<>>
    /\ fullBytesLen = 0
    /\ party = <<>>
    /\ outCh = <<>>
    /\ endCh = <<>>
    /\ pending = {}
    /\ ret = LambdaRet("none", <<>>, 0, 0, [lambda |-> 0, err |-> ""])

\* a call ComputeLambda(delta, S, i, j) with delta = l!
LambdaCall(S, i, j) ==
    /\ ret' = LambdaRet("ComputeLambda", S, i, j,
                        ComputeLambda(CalculateDelta(MaxPlayers), S, i, j))
    /\ UNCHANGED <<build, m, fullBytesLen, party, outCh, endCh, pending>>

\* the call of CombineSignShares for the share at position k:
\* ComputeLambda(delta, shares, 0, int64(share.Index))
LambdaCombine(S, k) ==
    /\ ret' = LambdaRet("CombineSignShares", S, 0, S[k],
                        ComputeLambda(CalculateDelta(MaxPlayers), S, 0, S[k]))
    /\ UNCHANGED <<build, m, fullBytesLen, party, outCh, endCh, pending>>

NextLambda ==
    \/ \E S \in ShareSlices : \E i, j \in 0 .. MaxPlayers : LambdaCall(S, i, j)
    \/ \E S \in ShareSlices : \E k \in 1 .. Len(S) : LambdaCombine(S, k)

SpecLambda == InitLambda /\ [][NextLambda]_vars

\* the Index values of the shares of S
IndexSet(S) == {S[k] : k \in 1 .. Len(S)}

PairwiseDistinct(S) == \A k1, k2 \in 1 .. Len(S) : k1 # k2 => S[k1] # S[k2]

\* the products of the formula, over S \ {j}
RECURSIVE ProductOver(_, _)
ProductOver(x, js) ==
    IF js = {} THEN 1
    ELSE LET jp == CHOOSE e \in js : TRUE IN (x - jp) * ProductOver(x, js \ {jp})

\* C39: for every share set S with pairwise-distinct indices in 1..l,
\* every j in S and every i not in S, ComputeLambda(delta, S, i, j) returns
\* without error the exact integer delta * prod(i - j') / prod(j - j')
\* over j' in S \ {j}; it returns an error when i = j, when j is not the
\* Index of a share of S, and when i is the Index of a share of S.
C39_LambdaExact ==
    (ret.op \in {"ComputeLambda", "CombineSignShares"} /\ PairwiseDistinct(ret.S)) =>
        LET js == IndexSet(ret.S)
        IN  /\ (ret.j \in js /\ ret.i \notin js) =>
                /\ ret.err = ""
                /\ ret.lambda * ProductOver(ret.j, js \ {ret.j})
                     = CalculateDelta(MaxPlayers) * ProductOver(ret.i, js \ {ret.j})
            /\ (ret.i = ret.j \/ ret.j \notin js \/ ret.i \in js) => ret.err # ""

====
